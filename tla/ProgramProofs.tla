--------------------------- MODULE ProgramProofs ---------------------------
(***************************************************************************)
(* Proofs about what a program does on the simulator.  Every operand,      *)
(* result and answer in flight is the one the sequential interpreter would *)
(* find (RightInv), so that each cycle of the CPU is a step of the         *)
(* interpreter or none (ProgramOrder), loaded anew at any moment or not,   *)
(* and main() prints the interpreter's result (WhatIsPrinted).             *)
(***************************************************************************)
EXTENDS Program, CPUFlowProofs

----------------------------------------------------------------------------
(* What is in flight. *)

(* The instruction whose address the entry in the slot has. *)
code(slot) == Decode[read(memory, rob_cur[slot].pc, WORD)]

(* What is in flight is what memory holds ... *)
CodeIsDecoded ==
  \A slot \in RobIndex : rob_cur[slot] # None =>
    /\ read(memory, rob_cur[slot].pc, WORD) # None
    /\ rob_cur[slot].op = code(slot).op
    /\ rob_cur[slot].rd = code(slot).rd
    /\ rob_cur[slot].writes_rd <=> writes_rd(rob_cur[slot].op) /\ rob_cur[slot].rd # 0

(* ... along the predicted path, which ends at a HALT. *)
PathIsPredicted ==
  /\ \A slot \in RobIndex : rob_cur[slot] # None =>
       /\ ~is_control(rob_cur[slot].op) =>
            rob_cur[slot].predicted_next_pc = add(rob_cur[slot].pc, InstructionWidth)
       /\ age(slot) = rob_count - 1 => current_pc = rob_cur[slot].predicted_next_pc
       /\ rob_cur[slot].op = "HALT" => age(slot) = rob_count - 1
  /\ \A slot, next \in RobIndex :
       rob_cur[slot] # None /\ rob_cur[next] # None /\ age(next) = age(slot) + 1 =>
         rob_cur[next].pc = rob_cur[slot].predicted_next_pc

----------------------------------------------------------------------------
(* Operands.  An instruction of age n gets a register from the youngest of *)
(* the writers of the register that are older, and from the register file  *)
(* if there is none.                                                       *)
older_writers(n, r) == {writer \in writers(r) : age(writer) < n}

is_source(writer, n, r) ==
  /\ writer \in older_writers(n, r)
  /\ \A other \in older_writers(n, r) : age(other) <= age(writer)

(* What the interpreter would find in the register ... *)
Provides(n, r, value) ==
  \/ older_writers(n, r) = {} /\ value = register[r]
  \/ \E writer \in RobIndex :
       is_source(writer, n, r) /\ rob_cur[writer].ready /\ rob_cur[writer].value = value

(* ... once it is there. *)
Awaits(n, r, tag) ==
  \E writer \in RobIndex : is_source(writer, n, r) /\ rob_cur[writer].tag = tag

RegisterIsRight(operand, n, r) ==
  IF operand.ready THEN Provides(n, r, operand.value) ELSE Awaits(n, r, operand.tag)

constant_source(source, slot) ==
  CASE source = "Immediate" -> code(slot).immediate
    [] source = "ProgramCounter" -> rob_cur[slot].pc
    [] OTHER -> 0

Supplies(source, slot, r, value) ==
  IF source = "Register" THEN Provides(age(slot), r, value)
  ELSE value = constant_source(source, slot)

OperandIsRight(source, operand, slot, r) ==
  IF source = "Register" THEN RegisterIsRight(operand, age(slot), r)
  ELSE operand.ready /\ operand.value = constant_source(source, slot)

StationIsRight(entry, slot) ==
  /\ entry.pc = rob_cur[slot].pc /\ entry.immediate = code(slot).immediate
  /\ OperandIsRight(lhs_source(entry.op), entry.lhs, slot, code(slot).rs1)
  /\ OperandIsRight(rhs_source(entry.op), entry.rhs, slot, code(slot).rs2)

StationsAreRight ==
  \A place \in RS!Slot : rs_cur[place] # None =>
    StationIsRight(rs_cur[place], rs_cur[place].destination.index)

----------------------------------------------------------------------------
(* Results. *)

(* What the functional unit is to be given for the instruction. *)
execution(slot, lhs, rhs) ==
  [op |-> rob_cur[slot].op, operand1 |-> lhs, operand2 |-> rhs,
   immediate |-> code(slot).immediate, pc |-> rob_cur[slot].pc,
   tag |-> rob_cur[slot].tag]

(* What the instruction in the slot computes, and where it goes from there. *)
Computes(slot, value, next) ==
  \E lhs, rhs \in Word :
    /\ Supplies(lhs_source(rob_cur[slot].op), slot, code(slot).rs1, lhs)
    /\ Supplies(rhs_source(rob_cur[slot].op), slot, code(slot).rs2, rhs)
    /\ value = FU!result_of(execution(slot, lhs, rhs))
    /\ is_control(rob_cur[slot].op) => next = FU!next_pc_of(execution(slot, lhs, rhs))

UnitIsRight ==
  fu_result # None =>
    /\ Computes(fu_result.tag.index, fu_result.result, fu_result.actual_next_pc)
    /\ fu_result.has_control_result <=> is_control(operation_of(fu_result.tag))

AccessIsRight(entry, slot) ==
  /\ entry.immediate = code(slot).immediate
  /\ RegisterIsRight(entry.base, age(slot), code(slot).rs1)
  /\ is_store(entry.op) => RegisterIsRight(entry.store_data, age(slot), code(slot).rs2)
  /\ entry.address_ready =>
       entry.base.ready /\ entry.address = add(entry.base.value, entry.immediate)

QueueIsRight ==
  \A place \in LSQ!Slot : lsq_cur[place] # None =>
    AccessIsRight(lsq_cur[place], lsq_cur[place].destination.index)

(* What the load in the slot finds in memory. *)
Loads(slot, value) ==
  \E base \in Word :
    LET op == rob_cur[slot].op
        address == add(base, code(slot).immediate)
    IN  /\ Provides(age(slot), code(slot).rs1, base)
        /\ in_bounds(address, LSQ!memory_width(op))
        /\ value = LSQ!extend_load_result(op, read(memory, address, LSQ!memory_width(op)))

BufferIsRight ==
  lsq_load_result # None =>
    /\ Loads(lsq_load_result.tag.index, lsq_load_result.result)
    /\ ~lsq_load_result.has_control_result

ResultsAreRight ==
  \A slot \in RobIndex : rob_cur[slot] # None /\ rob_cur[slot].ready =>
    /\ FU!executable(rob_cur[slot].op) =>
         Computes(slot, rob_cur[slot].value, rob_cur[slot].actual_next_pc)
    /\ is_load(rob_cur[slot].op) => Loads(slot, rob_cur[slot].value)
    /\ is_store(rob_cur[slot].op) => slot = rob_head

----------------------------------------------------------------------------
(* Memory instructions wait in program order, behind those that are done.  *)
QueueIsInOrder ==
  \A one, other \in LSQ!Slot :
    lsq_cur[one] # None /\ lsq_cur[other] # None /\ lsq_age(one) < lsq_age(other) =>
      age(lsq_cur[one].destination.index) < age(lsq_cur[other].destination.index)

LoadsAreOlder ==
  \A slot \in RobIndex :
    /\ rob_cur[slot] # None /\ is_load(rob_cur[slot].op)
    /\ Abandoned(rob_cur[slot].tag)
    => \A place \in LSQ!Slot : lsq_cur[place] # None =>
         age(slot) < age(lsq_cur[place].destination.index)

AnswerIsRight ==
  /\ response # None /\ asked /\ LSQ!matching_response(response)
  /\ response.success /\ is_load(LSQ!front.op)
  => LET width == LSQ!memory_width(LSQ!front.op)
     IN  in_bounds(LSQ!front.address, width)
         /\ response.value = read(memory, LSQ!front.address, width)

OperandsAreRight == StationsAreRight /\ QueueIsRight
FinishedIsRight == UnitIsRight /\ BufferIsRight /\ ResultsAreRight
MemoryIsOrdered == QueueIsInOrder /\ LoadsAreOlder /\ AnswerIsRight

RightInv ==
  /\ CodeIsDecoded /\ PathIsPredicted
  /\ OperandsAreRight /\ FinishedIsRight /\ MemoryIsOrdered

----------------------------------------------------------------------------
(* What a cycle does to the entries and to the registers. *)

LEMMA CycleOfTheRegisters ==
  ASSUME RingInv, Cycle, NEW r \in RegisterIndex
  PROVE  /\ register[r] \in Word /\ register[0] = 0
         /\ register'[r] = IF commit # None /\ commit.writes_rd /\ commit.rd = r
                           THEN commit.value ELSE register[r]
<1>1. TypeOK /\ register \in [RegisterIndex -> Word] /\ register[0] = 0
  BY DEF RingInv, TypeOK
<1>2. RF!apply(register_write)
  BY CycleParts
<1>3. commit # None /\ commit.writes_rd => commit.rd # 0
  BY <1>1, Retiring DEF RingInv, WritersNameRegisters, TypeOK, RobTypeOK
<1>4. register_write = IF commit # None /\ commit.writes_rd
                       THEN [rd |-> commit.rd, value |-> commit.value] ELSE None
  BY DEF register_write
<1>5. commit # None /\ commit.writes_rd => register_write # None
  <2>1. commit # None => commit \in ROB!ROBEntry
    BY <1>1, RobHead DEF commit, Maybe
  <2>2. commit # None => [rd |-> commit.rd, value |-> commit.value] \in RF!RegisterWrite
    BY <2>1, SameRecords
  <2> QED
    BY <1>4, <2>2, NothingAssumption
<1> QED
  BY <1>1, <1>2, <1>3, <1>4, <1>5 DEF RF!apply

(* What is done is left alone. *)
LEMMA FinishedStays ==
  ASSUME FlowInv, Cycle, NEW slot \in RobIndex, stays(slot), rob_cur[slot].ready
  PROVE  rob_cur'[slot] = rob_cur[slot]
<1>1. RingInv /\ TypeOK /\ LsqContiguous /\ ResponseIsKnown /\ QueueBacked /\ ResultsBacked
  BY FlowFacts
<1>2. rob_cur'[slot] = with_results[slot] /\ rob_cur[slot] # None
  BY <1>1, CycleOfTheRing DEF stays
<1>3. completion # None /\ ROB!matching_entry(completion.tag, rob_cur) =>
        completion.tag.index # slot
  BY <1>1, CycleOfTheBus DEF ResultsBacked, Unfinished
<1>4. ROB!apply_completion(rob_cur, completion)[slot] = rob_cur[slot]
  BY <1>1, <1>3 DEF ROB!apply_completion, TypeOK, RobTypeOK
<1>5. store_completion # None => Unfinished(store_completion)
  BY <1>1, AnswersWereAsked, HeadOfTheQueue DEF QueueBacked
<1>6. ROB!matching_entry(store_completion, rob_cur) => store_completion.index # slot
  BY <1>5 DEF Unfinished, ROB!matching_entry
<1>7. with_results[slot] = ROB!apply_completion(rob_cur, completion)[slot]
  BY <1>6 DEF with_results, ROB!apply_store_completion
<1> QED
  BY <1>2, <1>4, <1>7

(* A result is recorded as it comes. *)
LEMMA ResultIsRecorded ==
  ASSUME FlowInv, Cycle, NEW slot \in RobIndex, stays(slot),
         completion # None, completion.tag = rob_cur[slot].tag
  PROVE  /\ rob_cur'[slot].ready /\ rob_cur'[slot].value = completion.result
         /\ rob_cur'[slot].actual_next_pc =
              IF completion.has_control_result THEN completion.actual_next_pc
              ELSE rob_cur[slot].actual_next_pc
<1>1. RingInv /\ TypeOK
  BY FlowFacts
<1>2. /\ rob_cur'[slot] = with_results[slot] /\ rob_cur[slot] # None
      /\ rob_cur[slot] \in ROB!ROBEntry /\ completion.tag.index = slot
  <2>1. rob_cur'[slot] = with_results[slot] /\ rob_cur[slot] # None
    BY <1>1, CycleOfTheRing DEF stays
  <2> QED
    BY <1>1, <2>1, TagTellsSlot DEF TypeOK, RobTypeOK, Maybe
<1>3. ROB!matching_entry(completion.tag, rob_cur)
  BY <1>1, <1>2, NoneAssumption, SameSignals, SameRecords DEF ROB!matching_entry
<1> DEFINE entries == ROB!apply_completion(rob_cur, completion)
<1>4. entries[slot] = ROB!with_result(rob_cur[slot], completion)
  BY <1>1, <1>2, <1>3 DEF ROB!apply_completion, TypeOK, RobTypeOK
<1>5. /\ entries[slot].ready /\ entries[slot].value = completion.result
      /\ entries[slot].actual_next_pc =
           IF completion.has_control_result THEN completion.actual_next_pc
           ELSE rob_cur[slot].actual_next_pc
      /\ entries[slot] \in ROB!ROBEntry
  <2>1. completion \in FUResult
    BY <1>1, CycleOfTheBus
  <2>2. entries[slot] \in ROB!ROBEntry
    BY <1>2, <1>4, <2>1, WithResult
  <2> QED
    BY <1>2, <1>4, <2>2, SameRecords DEF ROB!with_result
<1>6. with_results = ROB!apply_store_completion(entries, store_completion)
  BY DEF with_results
<1>7. entries \in [RobIndex -> Maybe(ROB!ROBEntry)]
  BY <1>1, <1>2, <1>4, <1>5 DEF ROB!apply_completion, TypeOK, RobTypeOK, Maybe
<1> HIDE DEF entries
<1> QED
  BY <1>2, <1>5, <1>6, <1>7, SameRecords DEF ROB!apply_store_completion

----------------------------------------------------------------------------
(* Where an operand comes from, a cycle later.  An instruction that stays  *)
(* goes from age n to age m when the head commits; one that is issued has  *)
(* n instructions before it, of which m are left.                          *)

Ageing(n, m) == n \in Nat /\ m \in Nat /\ n = m + retired /\ n <= rob_count

LEMMA SourcesFollow ==
  ASSUME RingInv, Cycle, ~flush, NEW r \in RegisterIndex, NEW n, NEW m, Ageing(n, m)
  PROVE  /\ older_writers(m, r)' = {writer \in older_writers(n, r) : stays(writer)}
         /\ \A writer \in RobIndex : is_source(writer, n, r) =>
              \/ stays(writer) /\ is_source(writer, m, r)'
              \/ /\ writer = rob_head /\ commit # None /\ commit = rob_cur[rob_head]
                 /\ commit.writes_rd /\ commit.rd = r /\ older_writers(m, r)' = {}
<1>1. /\ TypeOK /\ RobContiguous /\ rob_count \in Nat /\ retired \in {0, 1}
      /\ n \in Nat /\ m \in Nat /\ n = m + retired /\ n <= rob_count
  BY Retiring DEF RingInv, TypeOK, RobTypeOK, Ageing
<1>2. ASSUME NEW slot \in RobIndex, stays(slot)
      PROVE  age(slot)' = age(slot) - retired /\ age(slot) \in Nat
  BY <1>1, <1>2, CycleOfTheRing, Ages
<1>3. ASSUME NEW slot \in RobIndex, joins(slot)
      PROVE  age(slot)' = rob_count - retired
  BY <1>3, CycleOfTheRing
<1>4. ASSUME NEW slot \in RobIndex
      PROVE  slot \in older_writers(m, r)' <=> slot \in older_writers(n, r) /\ stays(slot)
  <2>1. slot \in older_writers(m, r)' <=> slot \in writers(r)' /\ age(slot)' < m
    BY DEF older_writers
  <2>2. CASE joins(slot)
    <3>1. ~(age(slot)' < m)
      BY <1>1, <1>3, <2>2
    <3>2. ~stays(slot)
      <4>1. issue_outputs.rob # None /\ slot = rob_tail
        BY <2>2 DEF joins
      <4>2. rob_cur[slot] = None
        BY <1>1, <4>1, IssuedEntry, AgeOfTheTail
      <4> QED
        BY <4>2 DEF stays
    <3> QED
      BY <2>1, <3>1, <3>2
  <2>3. CASE ~joins(slot)
    <3>1. slot \in writers(r)' <=> slot \in writers(r) /\ stays(slot)
      BY <2>3, CycleOfTheWriters
    <3>2. stays(slot) => (age(slot)' < m <=> age(slot) < n)
      BY <1>1, <1>2
    <3> QED
      BY <2>1, <3>1, <3>2 DEF older_writers
  <2> QED
    BY <2>2, <2>3
<1>5. older_writers(m, r)' = {writer \in older_writers(n, r) : stays(writer)}
  <2>1. older_writers(m, r)' \subseteq RobIndex /\ older_writers(n, r) \subseteq RobIndex
    BY DEF older_writers, writers
  <2> QED
    BY <1>4, <2>1
<1>6. ASSUME NEW writer \in RobIndex, is_source(writer, n, r), stays(writer)
      PROVE  is_source(writer, m, r)'
  <2>1. writer \in older_writers(m, r)'
    BY <1>4, <1>6 DEF is_source
  <2>2. ASSUME NEW other \in older_writers(m, r)'
        PROVE  age(other)' <= age(writer)'
    <3>1. other \in RobIndex /\ other \in older_writers(n, r) /\ stays(other)
      BY <1>5 DEF older_writers, writers
    <3>2. age(other) <= age(writer)
      BY <1>6, <3>1 DEF is_source
    <3> QED
      BY <1>1, <1>2, <1>6, <3>1, <3>2
  <2> QED
    BY <2>1, <2>2 DEF is_source
<1>7. ASSUME NEW writer \in RobIndex, is_source(writer, n, r), ~stays(writer)
      PROVE  /\ writer = rob_head /\ commit # None /\ commit = rob_cur[rob_head]
             /\ commit.writes_rd /\ commit.rd = r /\ older_writers(m, r)' = {}
  <2>1. writer \in writers(r) /\ rob_cur[writer] # None
    BY <1>7 DEF is_source, older_writers, writers
  <2>2. commit # None /\ writer = rob_head
    BY <1>7, <2>1 DEF stays
  <2>3. commit = rob_cur[rob_head] /\ age(rob_head) = 0 /\ rob_head \in RobIndex
    BY <1>1, <2>2, Retiring, Ages DEF TypeOK, RobTypeOK
  <2>4. ASSUME NEW other \in older_writers(n, r)
        PROVE  ~stays(other)
    <3>1. other \in RobIndex /\ age(other) <= 0
      BY <1>7, <2>2, <2>3 DEF is_source, older_writers, writers
    <3>2. other = rob_head
      BY <1>1, <3>1, Ages
    <3> QED
      BY <2>2, <3>2 DEF stays
  <2> QED
    BY <1>5, <2>1, <2>2, <2>3, <2>4 DEF writers
<1> QED
  BY <1>5, <1>6, <1>7

(* A value that is there stays there, in the entry or in the register. *)
LEMMA ValuesStay ==
  ASSUME FlowInv, Cycle, ~flush, NEW r \in RegisterIndex, NEW n, NEW m, Ageing(n, m),
         NEW value, Provides(n, r, value)
  PROVE  Provides(m, r, value)'
<1>1. RingInv /\ TypeOK /\ RobContiguous
  BY FlowFacts DEF RingInv
<1>2. older_writers(m, r)' = {writer \in older_writers(n, r) : stays(writer)}
  BY <1>1, SourcesFollow
<1>3. CASE older_writers(n, r) = {} /\ value = register[r]
  <2>1. older_writers(m, r)' = {}
    BY <1>2, <1>3
  <2>2. ~(commit # None /\ commit.writes_rd /\ commit.rd = r)
    <3>1. SUFFICES ASSUME commit # None, commit.writes_rd, commit.rd = r
                   PROVE  rob_head \in older_writers(n, r)
      BY <1>3
    <3>2. /\ commit = rob_cur[rob_head] /\ rob_head \in RobIndex /\ age(rob_head) = 0
          /\ retired = 1
      BY <1>1, <3>1, Retiring, Ages DEF TypeOK, RobTypeOK, retired
    <3>3. 0 < n
      BY <3>2 DEF Ageing
    <3> QED
      BY <3>1, <3>2, <3>3 DEF older_writers, writers
  <2>3. register'[r] = register[r]
    BY <1>1, <2>2, CycleOfTheRegisters
  <2> QED
    BY <1>3, <2>1, <2>3 DEF Provides
<1>4. CASE \E writer \in RobIndex :
             is_source(writer, n, r) /\ rob_cur[writer].ready /\ rob_cur[writer].value = value
  <2> PICK writer \in RobIndex :
             is_source(writer, n, r) /\ rob_cur[writer].ready /\ rob_cur[writer].value = value
    BY <1>4
  <2>1. CASE stays(writer) /\ is_source(writer, m, r)'
    <3>1. rob_cur'[writer] = rob_cur[writer]
      BY <2>1, FinishedStays
    <3> QED
      BY <2>1, <3>1 DEF Provides
  <2>2. CASE /\ writer = rob_head /\ commit # None /\ commit = rob_cur[rob_head]
             /\ commit.writes_rd /\ commit.rd = r /\ older_writers(m, r)' = {}
    <3>1. register'[r] = value
      BY <1>1, <2>2, CycleOfTheRegisters
    <3> QED
      BY <2>2, <3>1 DEF Provides
  <2> QED
    BY <1>1, <2>1, <2>2, SourcesFollow
<1> QED
  BY <1>3, <1>4 DEF Provides

(* A value that is broadcast arrives where it is awaited; the others are   *)
(* awaited on.                                                             *)
LEMMA ValuesArrive ==
  ASSUME FlowInv, Cycle, ~flush, NEW r \in RegisterIndex, NEW n, NEW m, Ageing(n, m),
         NEW writer \in RobIndex, is_source(writer, n, r), ~rob_cur[writer].ready,
         NEW tag, tag = rob_cur[writer].tag
  PROVE  /\ \A value : broadcast # None /\ broadcast.tag = tag /\ broadcast.value = value =>
                        Provides(m, r, value)'
         /\ ~(broadcast # None /\ broadcast.tag = tag) => Awaits(m, r, tag)'
<1>1. RingInv /\ TypeOK
  BY FlowFacts
<1>2. commit # None => commit = rob_cur[rob_head] /\ commit.ready
  BY <1>1, Retiring
<1>3. stays(writer) /\ is_source(writer, m, r)'
  BY <1>1, <1>2, SourcesFollow
<1>4. ASSUME broadcast # None, broadcast.tag = tag, NEW value, broadcast.value = value
      PROVE  Provides(m, r, value)'
  <2>1. completion # None /\ completion.tag = broadcast.tag /\ broadcast.value = completion.result
    BY <1>4 DEF broadcast, completion, CDB!broadcast
  <2>2. rob_cur'[writer].ready /\ rob_cur'[writer].value = value
    BY <1>3, <1>4, <2>1, ResultIsRecorded
  <2> QED
    BY <1>3, <2>2 DEF Provides
<1>5. ASSUME ~(broadcast # None /\ broadcast.tag = tag)
      PROVE  Awaits(m, r, tag)'
  <2>1. rob_cur'[writer].tag = rob_cur[writer].tag
    BY <1>1, <1>3, CycleOfTheRing DEF SameInstruction
  <2> QED
    BY <1>3, <2>1 DEF Awaits
<1> QED
  BY <1>4, <1>5

(* A waiting operand through a cycle. *)
LEMMA OperandsStayRight ==
  ASSUME FlowInv, Cycle, ~flush, NEW r \in RegisterIndex, NEW n, NEW m, Ageing(n, m),
         NEW operand, RegisterIsRight(operand, n, r), NEW consumer, awaited(operand, consumer),
         NEW woken, woken = RS!wake_operand(operand, broadcast)
  PROVE  RegisterIsRight(woken, m, r)'
<1>1. RingInv /\ TypeOK
  BY FlowFacts
<1>2. CASE operand.ready
  <2>1. woken = operand
    BY <1>2 DEF RS!wake_operand
  <2> QED
    BY <1>2, <2>1, ValuesStay DEF RegisterIsRight
<1>3. CASE ~operand.ready
  <2> PICK writer \in RobIndex : is_source(writer, n, r) /\ rob_cur[writer].tag = operand.tag
    BY <1>3 DEF RegisterIsRight, Awaits
  <2>1. rob_cur[writer] # None /\ rob_cur[writer].tag.index = writer
    BY <1>1, TagTellsSlot DEF is_source, older_writers, writers
  <2>2. ~rob_cur[writer].ready
    BY <1>3, <2>1 DEF awaited, ROB!lookup, ROB!matching_entry
  <2>3. CASE broadcast # None /\ broadcast.tag = operand.tag
    <3>1. woken.ready /\ woken.value = broadcast.value
      BY <1>3, <2>3 DEF RS!wake_operand, RS!ready_operand
    <3>2. Provides(m, r, woken.value)'
      BY <2>2, <2>3, <3>1, ValuesArrive
    <3> QED
      BY <3>1, <3>2 DEF RegisterIsRight
  <2>4. CASE ~(broadcast # None /\ broadcast.tag = operand.tag)
    <3>1. woken = operand
      BY <1>3, <2>4 DEF RS!wake_operand
    <3>2. Awaits(m, r, operand.tag)'
      BY <2>2, <2>4, ValuesArrive
    <3> QED
      BY <1>3, <3>1, <3>2 DEF RegisterIsRight
  <2> QED
    BY <2>3, <2>4
<1> QED
  BY <1>2, <1>3

(* What the issue unit finds for a source register (cpu.cpp:196-217). *)
LEMMA OperandsStartRight ==
  ASSUME FlowInv, Cycle, ~flush, NEW r \in RegisterIndex, NEW m, m = rob_count - retired,
         NEW operand, operand = Issue!resolve_register(r, source_state(r), broadcast)
  PROVE  RegisterIsRight(operand, m, r)'
<1>1. /\ RingInv /\ TypeOK /\ RobContiguous /\ RatNamesYoungestWriter /\ WritersNameRegisters
      /\ LsqContiguous /\ ResultsBacked
  BY FlowFacts DEF FlowInv, IInv, RingInv
<1> PICK n \in Nat : n = rob_count
  BY <1>1 DEF TypeOK, RobTypeOK
<1>2. Ageing(n, m)
  BY <1>1, Retiring DEF Ageing
<1>3. older_writers(n, r) = writers(r)
  BY <1>1 DEF older_writers, writers, RobContiguous
<1> DEFINE source == source_state(r)
<1>4. /\ source.producer = IF r = 0 THEN None ELSE rat[r]
      /\ source.architectural_value = register[r]
      /\ source.producer_ready =
           (ROB!lookup(RAT!lookup(r)) # None /\ ROB!lookup(RAT!lookup(r)).ready)
      /\ source.producer_ready =>
           source.producer_value = ROB!lookup(RAT!lookup(r)).value
  <2>1. r = 0 => register[r] = 0
    BY <1>1, CycleOfTheRegisters
  <2> QED
    BY <2>1 DEF source_state, RAT!lookup
<1> HIDE DEF source
<1>5. \A value : /\ Issue!ready_operand(value).ready /\ Issue!ready_operand(value).value = value
                 /\ ~Issue!waiting_operand(value).ready
                 /\ Issue!waiting_operand(value).tag = value
  BY DEF Issue!ready_operand, Issue!waiting_operand
<1>6. CASE writers(r) = {}
  <2>1. rat[r] = None
    BY <1>1, <1>6 DEF RatNamesYoungestWriter
  <2>2. operand.ready /\ operand.value = register[r]
    <3>1. r = 0 => register[r] = 0
      BY <1>1, CycleOfTheRegisters
    <3> QED
      BY <1>4, <1>5, <2>1, <3>1 DEF Issue!resolve_register, source
  <2>3. Provides(n, r, operand.value)
    BY <1>3, <1>6, <2>2 DEF Provides
  <2> QED
    BY <1>2, <2>2, <2>3, ValuesStay DEF RegisterIsRight
<1>7. CASE writers(r) # {}
  <2> PICK writer \in writers(r) :
        /\ rat[r] = rob_cur[writer].tag
        /\ \A other \in writers(r) : age(other) <= age(writer)
    BY <1>1, <1>7 DEF RatNamesYoungestWriter
  <2>1. writer \in RobIndex /\ rob_cur[writer] # None /\ r # 0 /\ is_source(writer, n, r)
    BY <1>1, <1>3 DEF writers, is_source, WritersNameRegisters
  <2> PICK tag \in RobTag : tag = rat[r]
    BY <1>1, <2>1, SameSignals, SameRecords DEF TypeOK, RobTypeOK, Maybe
  <2>2. tag.index = writer /\ tag # None /\ rob_cur[writer].tag = tag
    BY <1>1, <2>1, TagTellsSlot, NoneAssumption
  <2>3. ROB!lookup(RAT!lookup(r)) = rob_cur[writer]
    BY <2>1, <2>2 DEF RAT!lookup, ROB!lookup, ROB!matching_entry
  <2>4. CASE broadcast # None /\ broadcast.tag = tag
    <3>1. operand.ready /\ operand.value = broadcast.value
      BY <1>4, <1>5, <2>1, <2>2, <2>4 DEF Issue!resolve_register, source
    <3>2. ~rob_cur[writer].ready
      <4>1. Unfinished(broadcast.tag)
        BY <1>1, <2>4, CycleOfTheBus DEF ResultsBacked
      <4> QED
        BY <2>2, <2>4, <4>1 DEF Unfinished
    <3>3. Provides(m, r, operand.value)'
      BY <1>2, <2>1, <2>2, <2>4, <3>1, <3>2, ValuesArrive
    <3> QED
      BY <3>1, <3>3 DEF RegisterIsRight
  <2>5. CASE ~(broadcast # None /\ broadcast.tag = tag) /\ rob_cur[writer].ready
    <3>1. operand.ready /\ operand.value = rob_cur[writer].value
      BY <1>4, <1>5, <2>1, <2>2, <2>3, <2>5 DEF Issue!resolve_register, source
    <3>2. Provides(n, r, operand.value)
      BY <2>1, <2>5, <3>1 DEF Provides
    <3> QED
      BY <1>2, <3>1, <3>2, ValuesStay DEF RegisterIsRight
  <2>6. CASE ~(broadcast # None /\ broadcast.tag = tag) /\ ~rob_cur[writer].ready
    <3>1. ~operand.ready /\ operand.tag = tag
      BY <1>4, <1>5, <2>1, <2>2, <2>3, <2>6 DEF Issue!resolve_register, source
    <3>2. Awaits(m, r, tag)'
      BY <1>2, <2>1, <2>2, <2>6, ValuesArrive
    <3> QED
      BY <3>1, <3>2 DEF RegisterIsRight
  <2> QED
    BY <2>4, <2>5, <2>6
<1> QED
  BY <1>6, <1>7

----------------------------------------------------------------------------
(* The instructions themselves. *)

(* The premise: no store changes the code of what is in flight after it. *)
CodeInFlightStays ==
  \A slot \in RobIndex : rob_cur'[slot] # None =>
    read(memory', rob_cur'[slot].pc, WORD) = read(memory, rob_cur'[slot].pc, WORD)

LEMMA SameMemory ==
  ASSUME NEW image, NEW address, NEW width
  PROVE  /\ MEM!read(image, address, width) = read(image, address, width)
         /\ MEM!in_bounds(address, width) = in_bounds(address, width)
         /\ \A value : MEM!write(image, address, width, value) = write(image, address, width, value)
         /\ MEM!WORD = WORD /\ in_bounds(address, width) \in BOOLEAN
BY Sizes DEF MEM!read, read, MEM!in_bounds, in_bounds, MEM!write, write, MEM!WORD, WORD

LEMMA SameSums ==
  /\ \A lhs, rhs : FU!add(lhs, rhs) = add(lhs, rhs) /\ LSQ!add(lhs, rhs) = add(lhs, rhs)
  /\ \A op : is_control(op) \in BOOLEAN
BY Sizes DEF FU!add, LSQ!add, add, is_control, is_branch, is_jump

LEMMA InstructionStays ==
  ASSUME RingInv, Cycle, CodeInFlightStays, NEW slot \in RobIndex, stays(slot)
  PROVE  /\ rob_cur[slot] # None /\ rob_cur'[slot] # None
         /\ code(slot)' = code(slot) /\ SameInstruction(rob_cur'[slot], rob_cur[slot])
         /\ read(memory, rob_cur[slot].pc, WORD)' = read(memory, rob_cur[slot].pc, WORD)
         /\ age(slot)' = age(slot) - retired
<1>1. /\ rob_cur[slot] # None /\ rob_cur'[slot] # None
      /\ SameInstruction(rob_cur'[slot], rob_cur[slot]) /\ age(slot)' = age(slot) - retired
  BY CycleOfTheRing DEF stays
<1>2. read(memory, rob_cur[slot].pc, WORD)' = read(memory, rob_cur[slot].pc, WORD)
  BY <1>1 DEF CodeInFlightStays, SameInstruction
<1> QED
  BY <1>1, <1>2 DEF code

LEMMA InstructionStarts ==
  ASSUME RingInv, Cycle, CodeInFlightStays, NEW slot \in RobIndex, joins(slot)
  PROVE  /\ rob_cur'[slot] # None /\ rob_cur'[slot] = issue_outputs.rob
         /\ rob_cur'[slot].pc = current_pc
         /\ code(slot)' = packet.decoded /\ packet.pc = current_pc
         /\ packet.predicted_pc = predicted_next_pc(packet.decoded, current_pc)
         /\ read(memory, rob_cur[slot].pc, WORD)' # None
         /\ rob_cur'[slot].op = packet.decoded.op /\ rob_cur'[slot].rd = packet.decoded.rd
         /\ rob_cur'[slot].predicted_next_pc = packet.predicted_pc
         /\ rob_cur'[slot].writes_rd <=> writes_rd(packet.decoded.op) /\ packet.decoded.rd # 0
         /\ rob_cur'[slot].ready <=> packet.decoded.op = "HALT"
         /\ age(slot)' = rob_count - retired
<1>1. TypeOK /\ issue_outputs.rob # None
  BY DEF RingInv, joins
<1>2. /\ rob_cur'[slot] # None /\ rob_cur'[slot] = issue_outputs.rob
      /\ age(slot)' = rob_count - retired
  BY CycleOfTheRing
<1>3. issue_outputs.rob = Issue!rob_entry(packet, ROB!next_tag) /\ packet # None
  BY <1>1, IssuedEntry, IssueWires
<1>4. /\ packet.pc = current_pc /\ fetched # None /\ packet.decoded = Decode[fetched]
      /\ packet.predicted_pc = predicted_next_pc(packet.decoded, current_pc)
  BY <1>3 DEF packet
<1>5. /\ rob_cur'[slot].pc = current_pc
      /\ rob_cur'[slot].predicted_next_pc = packet.predicted_pc
  BY <1>2, <1>3, <1>4 DEF Issue!rob_entry
<1>6. fetched = read(memory, current_pc, WORD)
  BY SameMemory DEF fetched, MEM!fetch
<1>7. read(memory, rob_cur[slot].pc, WORD)' = fetched
  BY <1>2, <1>5, <1>6 DEF CodeInFlightStays
<1>8. code(slot)' = packet.decoded
  BY <1>4, <1>7 DEF code
<1> QED
  BY <1>2, <1>3, <1>4, <1>5, <1>7, <1>8, EntryOf

LEMMA CycleKeepsCode ==
  CodeIsDecoded /\ RingInv /\ Cycle /\ CodeInFlightStays => CodeIsDecoded'
<1> SUFFICES ASSUME CodeIsDecoded, RingInv, Cycle, CodeInFlightStays,
                    NEW slot \in RobIndex, rob_cur'[slot] # None
             PROVE  /\ read(memory, rob_cur[slot].pc, WORD)' # None
                    /\ rob_cur'[slot].op = code(slot)'.op
                    /\ rob_cur'[slot].rd = code(slot)'.rd
                    /\ rob_cur'[slot].writes_rd <=>
                         writes_rd(rob_cur'[slot].op) /\ rob_cur'[slot].rd # 0
  BY DEF CodeIsDecoded
<1>1. CASE stays(slot)
  BY <1>1, InstructionStays DEF CodeIsDecoded, SameInstruction
<1>2. CASE joins(slot)
  BY <1>2, InstructionStarts
<1> QED
  BY <1>1, <1>2, CycleOfTheRing

LEMMA CycleKeepsPath ==
  PathIsPredicted /\ RingInv /\ StoppedBehindHalt /\ Cycle /\ CodeInFlightStays
  => PathIsPredicted'
<1> SUFFICES ASSUME PathIsPredicted, RingInv, StoppedBehindHalt, Cycle, CodeInFlightStays
             PROVE  PathIsPredicted'
  OBVIOUS
<1>1. /\ TypeOK /\ RobContiguous /\ rob_count \in Nat /\ retired \in {0, 1}
      /\ \A slot \in RobIndex : age(slot) \in Nat
  BY Retiring, Ages DEF RingInv, TypeOK, RobTypeOK
<1>2. \A slot \in RobIndex : rob_cur'[slot] # None <=> stays(slot) \/ joins(slot)
  BY CycleOfTheRing
<1>3. ASSUME NEW slot \in RobIndex, stays(slot)
      PROVE  /\ rob_cur[slot] # None /\ SameInstruction(rob_cur'[slot], rob_cur[slot])
             /\ age(slot)' = age(slot) - retired /\ age(slot) < rob_count /\ ~flush
  BY <1>1, <1>3, InstructionStays DEF RobContiguous, stays
<1>4. ASSUME NEW slot \in RobIndex, joins(slot)
      PROVE  /\ rob_cur'[slot].pc = current_pc /\ issue_outputs.rob # None /\ ~flush
             /\ rob_cur'[slot] = issue_outputs.rob /\ age(slot)' = rob_count - retired
             /\ ~is_control(rob_cur'[slot].op) =>
                  rob_cur'[slot].predicted_next_pc = add(rob_cur'[slot].pc, InstructionWidth)
  <2>1. ~is_control(packet.decoded.op) =>
          predicted_next_pc(packet.decoded, current_pc) = add(current_pc, InstructionWidth)
    BY SameSums DEF predicted_next_pc, is_control, is_jump, JumpOps
  <2> QED
    BY <1>4, <2>1, InstructionStarts DEF joins
<1>5. ~flush => /\ rob_count' = rob_count - retired + (IF issue_outputs.rob = None THEN 0 ELSE 1)
                /\ current_pc' = IF issue_outputs.rob # None
                                 THEN issue_outputs.rob.predicted_next_pc ELSE current_pc
  BY CycleOfTheRing, CycleParts DEF next_pc
<1>6. ASSUME NEW slot \in RobIndex, rob_cur'[slot] # None
      PROVE  /\ ~is_control(rob_cur'[slot].op) =>
                  rob_cur'[slot].predicted_next_pc = add(rob_cur'[slot].pc, InstructionWidth)
             /\ age(slot)' = rob_count' - 1 => current_pc' = rob_cur'[slot].predicted_next_pc
             /\ rob_cur'[slot].op = "HALT" => age(slot)' = rob_count' - 1
  <2>1. CASE stays(slot)
    <3>1. CASE issue_outputs.rob = None
      BY <1>1, <1>3, <1>5, <2>1, <3>1 DEF PathIsPredicted, SameInstruction
    <3>2. CASE issue_outputs.rob # None
      <4>1. age(slot)' # rob_count' - 1
        BY <1>1, <1>3, <1>5, <2>1, <3>2
      <4>2. rob_cur[slot].op # "HALT"
        <5>1. ~fetch_stopped /\ status = "Running"
          BY <1>1, <3>2, NoIssueWhenStopped, CycleParts
        <5>2. ASSUME rob_cur[slot].op = "HALT"
              PROVE  \A other \in RobIndex : rob_cur[other] # None => age(other) <= age(slot)
          BY <1>1, <1>3, <2>1, <5>2 DEF PathIsPredicted, RobContiguous
        <5> QED
          BY <1>3, <2>1, <5>1, <5>2 DEF StoppedBehindHalt
      <4> QED
        BY <1>3, <2>1, <4>1, <4>2 DEF PathIsPredicted, SameInstruction
    <3> QED
      BY <3>1, <3>2
  <2>2. CASE joins(slot)
    BY <1>1, <1>4, <1>5, <2>2
  <2> QED
    BY <1>2, <1>6, <2>1, <2>2
<1>7. ASSUME NEW slot \in RobIndex, NEW next \in RobIndex,
             rob_cur'[slot] # None, rob_cur'[next] # None, age(next)' = age(slot)' + 1
      PROVE  rob_cur'[next].pc = rob_cur'[slot].predicted_next_pc
  <2>1. CASE stays(slot) /\ stays(next)
    <3>1. age(next) = age(slot) + 1
      BY <1>1, <1>3, <1>7, <2>1
    <3> QED
      BY <1>3, <2>1, <3>1 DEF PathIsPredicted, SameInstruction
  <2>2. CASE stays(slot) /\ joins(next)
    <3>1. age(slot) = rob_count - 1
      BY <1>1, <1>3, <1>4, <1>7, <2>2
    <3> QED
      BY <1>3, <1>4, <2>2, <3>1 DEF PathIsPredicted, SameInstruction
  <2>3. CASE joins(slot)
    BY <1>1, <1>2, <1>3, <1>4, <1>7, <2>3
  <2> QED
    BY <1>2, <1>7, <2>1, <2>2, <2>3
<1> QED
  BY <1>6, <1>7 DEF PathIsPredicted

----------------------------------------------------------------------------
(* What is computed from the operands. *)

LEMMA CodeIsInstruction ==
  ASSUME TypeOK, CodeIsDecoded, NEW slot \in RobIndex, rob_cur[slot] # None
  PROVE  code(slot) \in DecodedInstruction /\ rob_cur[slot].pc \in Word
<1>1. rob_cur[slot].pc \in Word /\ memory \in Image
  BY SameRecords DEF TypeOK, RobTypeOK, Maybe
<1>2. WORD \in MemoryWidth
  BY DEF MemoryWidth
<1>3. read(memory, rob_cur[slot].pc, WORD) \in Word
  BY <1>1, <1>2, Reading, SameMemory DEF CodeIsDecoded, Maybe
<1> QED
  BY <1>1, <1>3, CPUAssumption DEF code

(* Going from age to age, an instruction that stays. *)
LEMMA StayingAges ==
  ASSUME RingInv, Cycle, NEW slot \in RobIndex, stays(slot)
  PROVE  ~flush /\ Ageing(age(slot), age(slot)')
<1>1. /\ TypeOK /\ RobContiguous /\ rob_count \in Nat /\ rob_count <= RobCapacity
      /\ rob_head \in RobIndex /\ rob_head' \in RobIndex /\ retired \in {0, 1}
  BY CycleKeepsRing, Retiring, SignalsAssumption DEF RingInv, TypeOK, RobTypeOK
<1>2. age(slot) \in Nat /\ age(slot) < rob_count /\ age(slot)' = age(slot) - retired
  BY <1>1, Ages, CycleOfTheRing DEF stays, RobContiguous
<1>3. age(slot) = 0 => retired = 0
  BY <1>1, Ages DEF stays, retired
<1> QED
  BY <1>1, <1>2, <1>3 DEF Ageing, stays

LEMMA SuppliesStay ==
  ASSUME FlowInv, Cycle, CodeInFlightStays, NEW slot \in RobIndex, stays(slot),
         NEW r \in RegisterIndex, NEW source, NEW value, Supplies(source, slot, r, value)
  PROVE  Supplies(source, slot, r, value)'
<1>1. RingInv
  BY FlowFacts
<1>2. CASE source = "Register"
  <2> PICK n, m : n = age(slot) /\ m = age(slot)'
    OBVIOUS
  <2>1. ~flush /\ Ageing(n, m)
    BY <1>1, StayingAges
  <2>2. Provides(n, r, value)
    BY <1>2 DEF Supplies
  <2>3. Provides(m, r, value)'
    BY <2>1, <2>2, ValuesStay
  <2> QED
    BY <1>2, <2>3 DEF Supplies
<1>3. CASE source # "Register"
  BY <1>1, <1>3, InstructionStays DEF Supplies, constant_source, SameInstruction
<1> QED
  BY <1>2, <1>3

LEMMA ComputesStays ==
  ASSUME FlowInv, CodeIsDecoded, Cycle, CodeInFlightStays, NEW slot \in RobIndex, stays(slot),
         NEW value, NEW next, Computes(slot, value, next)
  PROVE  Computes(slot, value, next)'
<1>1. RingInv /\ TypeOK
  BY FlowFacts
<1>2. /\ code(slot)' = code(slot) /\ SameInstruction(rob_cur'[slot], rob_cur[slot])
      /\ rob_cur[slot] # None
  BY <1>1, InstructionStays
<1>3. code(slot).rs1 \in RegisterIndex /\ code(slot).rs2 \in RegisterIndex
  BY <1>1, <1>2, CodeIsInstruction DEF DecodedInstruction
<1> PICK lhs, rhs \in Word :
      /\ Supplies(lhs_source(rob_cur[slot].op), slot, code(slot).rs1, lhs)
      /\ Supplies(rhs_source(rob_cur[slot].op), slot, code(slot).rs2, rhs)
      /\ value = FU!result_of(execution(slot, lhs, rhs))
      /\ is_control(rob_cur[slot].op) => next = FU!next_pc_of(execution(slot, lhs, rhs))
  BY DEF Computes
<1> PICK r1, r2 \in RegisterIndex : r1 = code(slot).rs1 /\ r2 = code(slot).rs2
  BY <1>3
<1> PICK s1, s2 : s1 = lhs_source(rob_cur[slot].op) /\ s2 = rhs_source(rob_cur[slot].op)
  OBVIOUS
<1>4. Supplies(s1, slot, r1, lhs)' /\ Supplies(s2, slot, r2, rhs)'
  BY SuppliesStay
<1>5. Supplies(lhs_source(rob_cur[slot].op), slot, code(slot).rs1, lhs)'
  BY <1>2, <1>4 DEF SameInstruction
<1>6. Supplies(rhs_source(rob_cur[slot].op), slot, code(slot).rs2, rhs)'
  BY <1>2, <1>4 DEF SameInstruction
<1>7. execution(slot, lhs, rhs)' = execution(slot, lhs, rhs)
  BY <1>2 DEF execution, SameInstruction
<1>8. /\ value = FU!result_of(execution(slot, lhs, rhs)')
      /\ is_control(rob_cur[slot].op) => next = FU!next_pc_of(execution(slot, lhs, rhs)')
  BY <1>7
<1> QED
  BY <1>2, <1>5, <1>6, <1>8 DEF Computes, SameInstruction

LEMMA RegistersStayRight ==
  ASSUME FlowInv, Cycle, NEW slot \in RobIndex, stays(slot), NEW r \in RegisterIndex,
         NEW operand, RegisterIsRight(operand, age(slot), r),
         NEW consumer, awaited(operand, consumer),
         NEW woken, woken = RS!wake_operand(operand, broadcast)
  PROVE  RegisterIsRight(woken, age(slot), r)'
<1> PICK n, m : n = age(slot) /\ m = age(slot)'
  OBVIOUS
<1>1. ~flush /\ Ageing(n, m)
  BY FlowFacts, StayingAges
<1>2. RegisterIsRight(operand, n, r)
  OBVIOUS
<1>3. RegisterIsRight(woken, m, r)'
  BY <1>1, <1>2, OperandsStayRight
<1> QED
  BY <1>3

LEMMA OperandStaysRight ==
  ASSUME FlowInv, Cycle, CodeInFlightStays, NEW slot \in RobIndex, stays(slot),
         NEW r \in RegisterIndex, NEW source, NEW operand,
         OperandIsRight(source, operand, slot, r),
         NEW consumer, awaited(operand, consumer),
         NEW woken, woken = RS!wake_operand(operand, broadcast)
  PROVE  OperandIsRight(source, woken, slot, r)'
<1>1. CASE source = "Register"
  BY <1>1, RegistersStayRight DEF OperandIsRight
<1>2. CASE source # "Register"
  <2>1. operand.ready /\ operand.value = constant_source(source, slot) /\ woken = operand
    BY <1>2 DEF OperandIsRight, RS!wake_operand
  <2>2. constant_source(source, slot)' = constant_source(source, slot)
    BY FlowFacts, InstructionStays DEF constant_source, SameInstruction
  <2> QED
    BY <1>2, <2>1, <2>2 DEF OperandIsRight
<1> QED
  BY <1>1, <1>2

LEMMA OperandStartsRight ==
  ASSUME FlowInv, Cycle, CodeInFlightStays, NEW slot \in RobIndex, joins(slot),
         NEW r \in RegisterIndex, NEW source,
         NEW resolved, resolved = Issue!resolve_register(r, source_state(r), broadcast),
         NEW operand,
         operand = Issue!select_operand(source, resolved, packet.decoded.immediate, packet.pc)
  PROVE  OperandIsRight(source, operand, slot, r)'
<1>1. /\ ~flush /\ code(slot)' = packet.decoded /\ rob_cur'[slot].pc = packet.pc
      /\ age(slot)' = rob_count - retired
  BY FlowFacts, InstructionStarts DEF joins
<1>2. CASE source = "Register"
  <2> PICK m : m = age(slot)'
    OBVIOUS
  <2>1. operand = resolved
    BY <1>2 DEF Issue!select_operand
  <2>2. RegisterIsRight(operand, m, r)'
    BY <1>1, <2>1, OperandsStartRight
  <2> QED
    BY <1>2, <2>2 DEF OperandIsRight
<1>3. CASE source # "Register"
  <2>1. operand.ready /\ operand.value = constant_source(source, slot)'
    BY <1>1, <1>3 DEF Issue!select_operand, Issue!ready_operand, constant_source
  <2> QED
    BY <1>3, <2>1 DEF OperandIsRight
<1> QED
  BY <1>2, <1>3

LEMMA SameSources ==
  \A op : Issue!lhs_source(op) = lhs_source(op) /\ Issue!rhs_source(op) = rhs_source(op)
BY DEF Issue!lhs_source, lhs_source, Issue!rhs_source, rhs_source, Issue!RegisterOps,
       RegisterOps, Issue!BranchOps, BranchOps

LEMMA CycleKeepsStationsRight ==
  ASSUME FlowInv, CodeIsDecoded, StationsAreRight, Cycle, CodeInFlightStays
  PROVE  StationsAreRight'
<1>1. /\ RingInv /\ TypeOK /\ StationsBacked /\ WakeUpStillToCome
  BY FlowFacts DEF FlowInv
<1> SUFFICES ASSUME NEW place \in RS!Slot, rs_cur'[place] # None,
                    NEW entry, entry = rs_cur'[place],
                    NEW slot, slot = entry.destination.index
             PROVE  StationIsRight(entry, slot)'
  BY DEF StationsAreRight
<1>2. ~flush
  BY <1>1, CycleOfTheStations
<1> PICK fresh \in Maybe(RS!Slot) :
      /\ fresh # None <=> issue_outputs.rs # None
      /\ \A other \in RS!Slot :
           /\ other = fresh => rs_cur'[other] = issue_outputs.rs /\ rs_cur'[other] # None
           /\ other # fresh =>
                (rs_cur'[other] # None <=> rs_cur[other] # None /\ other # leaving)
           /\ other # fresh /\ rs_cur'[other] # None => Wakes(rs_cur'[other], rs_cur[other])
  BY <1>1, <1>2, StationsFollow
<1>3. CASE place = fresh
  <2>1. /\ entry = issue_outputs.rs /\ issue_outputs.rs # None /\ issue_outputs.rob # None
    BY <1>1, <1>3, IssueWires
  <2>2. /\ issue_outputs = issued(packet, ROB!next_tag) /\ packet \in Issue!DecodePacket
    BY <1>1, <2>1, IssueWires
  <2> DEFINE op == packet.decoded.op
             immediate == packet.decoded.immediate
             resolved(r) == Issue!resolve_register(r, source_state(r), broadcast)
  <2>3. entry = Issue!rs_entry(packet, ROB!next_tag, resolved(packet.decoded.rs1),
                               resolved(packet.decoded.rs2))
    BY <2>1, <2>2 DEF issued
  <2> PICK r1, r2 \in RegisterIndex : r1 = packet.decoded.rs1 /\ r2 = packet.decoded.rs2
    BY <1>1, <2>1, IssuedOperands
  <2> PICK v1, v2 : v1 = resolved(r1) /\ v2 = resolved(r2)
    OBVIOUS
  <2>4. entry = Issue!rs_entry(packet, ROB!next_tag, v1, v2)
    BY <2>3
  <2> HIDE DEF resolved
  <2>5. /\ entry.op = op /\ entry.destination = ROB!next_tag
        /\ entry.immediate = immediate /\ entry.pc = packet.pc
        /\ entry.lhs = Issue!select_operand(lhs_source(op), v1, immediate, packet.pc)
        /\ entry.rhs = Issue!select_operand(rhs_source(op), v2, immediate, packet.pc)
    BY <2>4, SameSources DEF Issue!rs_entry
  <2>6. joins(slot) /\ slot \in RobIndex
    BY <1>1, <1>2, <2>1, <2>5, NewIsUnfinished DEF RobTag
  <2>7. code(slot)' = packet.decoded /\ rob_cur'[slot].pc = packet.pc
    BY <1>1, <2>6, InstructionStarts
  <2> PICK lhs, rhs, s1, s2 : /\ lhs = entry.lhs /\ rhs = entry.rhs
                              /\ s1 = lhs_source(op) /\ s2 = rhs_source(op)
    OBVIOUS
  <2>8. v1 = Issue!resolve_register(r1, source_state(r1), broadcast)
        /\ v2 = Issue!resolve_register(r2, source_state(r2), broadcast)
    BY DEF resolved
  <2>9. OperandIsRight(s1, lhs, slot, r1)' /\ OperandIsRight(s2, rhs, slot, r2)'
    BY <2>5, <2>6, <2>8, OperandStartsRight
  <2> QED
    BY <2>5, <2>7, <2>9 DEF StationIsRight
<1>4. CASE place # fresh
  <2>1. rs_cur[place] # None /\ Wakes(entry, rs_cur[place])
    BY <1>4
  <2>2. /\ rs_cur[place] \in RS!RSEntry /\ Unfinished(rs_cur[place].destination)
        /\ rs_cur[place].destination \in RobTag
    BY <1>1, <2>1, SameRecords DEF StationsBacked, TypeOK, RsTypeOK, Maybe
  <2>3. slot = rs_cur[place].destination.index /\ slot \in RobIndex /\ stays(slot)
    BY <1>1, <1>2, <2>1, <2>2, UnfinishedStays DEF Wakes
  <2>4. StationIsRight(rs_cur[place], slot) /\ rob_cur[slot] # None
    BY <2>1, <2>3 DEF StationsAreRight, stays
  <2>5. /\ code(slot)' = code(slot) /\ rob_cur'[slot].pc = rob_cur[slot].pc
        /\ code(slot) \in DecodedInstruction
    BY <1>1, <2>3, <2>4, InstructionStays, CodeIsInstruction DEF SameInstruction
  <2> PICK r1, r2 \in RegisterIndex : r1 = code(slot).rs1 /\ r2 = code(slot).rs2
    BY <2>5 DEF DecodedInstruction
  <2> PICK old : old = rs_cur[place]
    OBVIOUS
  <2>6. /\ awaited(old.lhs, old.destination) /\ awaited(old.rhs, old.destination)
    BY <1>1, <2>1 DEF WakeUpStillToCome
  <2>7. /\ entry.lhs = RS!wake_operand(old.lhs, broadcast)
        /\ entry.rhs = RS!wake_operand(old.rhs, broadcast)
        /\ entry.op = old.op /\ entry.pc = old.pc /\ entry.immediate = old.immediate
    BY <2>1 DEF Wakes
  <2>8. /\ OperandIsRight(lhs_source(old.op), old.lhs, slot, r1)
        /\ OperandIsRight(rhs_source(old.op), old.rhs, slot, r2)
    BY <2>4 DEF StationIsRight
  <2> PICK s1, s2, lhs, rhs : /\ s1 = lhs_source(old.op) /\ s2 = rhs_source(old.op)
                              /\ lhs = entry.lhs /\ rhs = entry.rhs
    OBVIOUS
  <2>9. OperandIsRight(s1, lhs, slot, r1)' /\ OperandIsRight(s2, rhs, slot, r2)'
    BY <2>3, <2>6, <2>7, <2>8, OperandStaysRight
  <2> QED
    BY <2>4, <2>5, <2>7, <2>9 DEF StationIsRight
<1> QED
  BY <1>3, <1>4

(* The result the functional unit holds is right for its instruction.      *)
LEMMA CycleKeepsUnitRight ==
  ASSUME FlowInv, CodeIsDecoded, StationsAreRight, UnitIsRight, Cycle, CodeInFlightStays
  PROVE  UnitIsRight'
<1>1. /\ RingInv /\ TypeOK /\ StationsBacked /\ ResultsBacked
  BY FlowFacts
<1> SUFFICES ASSUME fu_result' # None
             PROVE  /\ Computes(fu_result.tag.index, fu_result.result, fu_result.actual_next_pc)'
                    /\ fu_result'.has_control_result <=> is_control(operation_of(fu_result.tag)')
  BY DEF UnitIsRight
<1> PICK result : result = fu_result'
  OBVIOUS
<1> PICK slot, value, next :
      slot = result.tag.index /\ value = result.result /\ next = result.actual_next_pc
  OBVIOUS
<1> SUFFICES /\ slot \in RobIndex /\ stays(slot)
             /\ Computes(slot, value, next)
             /\ result.has_control_result <=> is_control(rob_cur[slot].op)
  <2>1. ASSUME slot \in RobIndex, stays(slot), Computes(slot, value, next)
        PROVE  Computes(slot, value, next)' /\ rob_cur'[slot].op = rob_cur[slot].op
    BY <1>1, <2>1, ComputesStays, InstructionStays DEF SameInstruction
  <2> QED
    BY <2>1 DEF operation_of
<1>2. CASE /\ ~flush /\ leaving \in RS!Slot /\ rs_cur[leaving] # None
           /\ fu_result'.tag = rs_cur[leaving].destination
           /\ fu_result' = FU!execute_instruction(RS!make_execute(rs_cur[leaving]))
           /\ rs_cur[leaving].lhs.ready /\ rs_cur[leaving].rhs.ready
  <2> PICK entry : entry = rs_cur[leaving]
    OBVIOUS
  <2>1. /\ entry \in RS!RSEntry /\ entry # None /\ Unfinished(entry.destination)
        /\ entry.op = operation_of(entry.destination)
    BY <1>1, <1>2 DEF TypeOK, RsTypeOK, Maybe, StationsBacked
  <2>2. /\ entry.destination \in RobTag /\ entry.lhs.value \in Word /\ entry.rhs.value \in Word
    BY <2>1, SameRecords DEF Operand
  <2>3. /\ slot \in RobIndex /\ stays(slot) /\ rob_cur[slot] # None
        /\ rob_cur[slot].tag = entry.destination /\ entry.op = rob_cur[slot].op
    BY <1>1, <1>2, <2>1, <2>2, UnfinishedStays DEF operation_of
  <2>4. StationIsRight(entry, slot)
    BY <1>2 DEF StationsAreRight
  <2> DEFINE lhs == entry.lhs.value
             rhs == entry.rhs.value
  <2>5. /\ Supplies(lhs_source(rob_cur[slot].op), slot, code(slot).rs1, lhs)
        /\ Supplies(rhs_source(rob_cur[slot].op), slot, code(slot).rs2, rhs)
    BY <1>2, <2>3, <2>4 DEF StationIsRight, OperandIsRight, RegisterIsRight, Supplies
  <2>6. RS!make_execute(entry) = execution(slot, lhs, rhs)
    BY <2>3, <2>4 DEF StationIsRight, RS!make_execute, execution
  <2>7. /\ value = FU!result_of(execution(slot, lhs, rhs))
        /\ next = FU!next_pc_of(execution(slot, lhs, rhs))
        /\ result.has_control_result = FU!is_control(rob_cur[slot].op)
    <3> HIDE DEF lhs, rhs
    <3>1. result = FU!execute_instruction(execution(slot, lhs, rhs))
      BY <1>2, <2>6
    <3>2. execution(slot, lhs, rhs).op = rob_cur[slot].op
      BY DEF execution
    <3> QED
      BY <3>1, <3>2 DEF FU!execute_instruction
  <2>8. lhs \in Word /\ rhs \in Word
    BY <2>2
  <2> HIDE DEF lhs, rhs
  <2>9. Computes(slot, value, next)
    BY <2>5, <2>7, <2>8 DEF Computes
  <2> QED
    BY <2>3, <2>7, <2>9, SameOperations
<1>3. CASE ~flush /\ fu_result # None /\ fu_result' = fu_result
  <2>1. Unfinished(fu_result.tag) /\ fu_result.tag \in RobTag
    BY <1>1, <1>3 DEF ResultsBacked, TypeOK, FUResult, Maybe
  <2>2. slot \in RobIndex /\ stays(slot)
    BY <1>1, <1>3, <2>1, UnfinishedStays
  <2> QED
    BY <1>3, <2>2 DEF UnitIsRight, operation_of
<1> QED
  BY <1>2, <1>3, ResultsFollow

(* A memory instruction that waits. *)
LEMMA CycleKeepsQueueRight ==
  ASSUME FlowInv, CodeIsDecoded, QueueIsRight, Cycle, CodeInFlightStays
  PROVE  QueueIsRight'
<1>1. /\ RingInv /\ TypeOK /\ QueueBacked /\ WakeUpStillToCome /\ LsqContiguous
  BY FlowFacts DEF FlowInv
<1> SUFFICES ASSUME NEW place \in LSQ!Slot, lsq_cur'[place] # None,
                    NEW entry, entry = lsq_cur'[place],
                    NEW slot, slot = entry.destination.index
             PROVE  AccessIsRight(entry, slot)'
  BY DEF QueueIsRight
<1>2. \A operand : LSQ!wake_operand(operand, broadcast) = RS!wake_operand(operand, broadcast)
  BY DEF LSQ!wake_operand, RS!wake_operand, LSQ!ready_operand, RS!ready_operand
<1> PICK base, data : base = entry.base /\ data = entry.store_data
  OBVIOUS
<1>3. CASE joins_queue(place)
  <2>1. ~flush /\ issue_outputs.lsq # None /\ issue_outputs.rob # None
    BY <1>1, <1>3, IssueWires DEF joins_queue
  <2>2. /\ issue_outputs = issued(packet, ROB!next_tag) /\ packet \in Issue!DecodePacket
        /\ issue_outputs.lsq \in LSQ!LSQEntry /\ entry = LSQ!addressed(issue_outputs.lsq)
    BY <1>1, <1>3, <2>1, IssueWires, CycleOfTheQueue DEF Maybe
  <2> DEFINE op == packet.decoded.op
             immediate == packet.decoded.immediate
             resolved(r) == Issue!resolve_register(r, source_state(r), broadcast)
  <2>3. issue_outputs.lsq = Issue!lsq_entry(packet, ROB!next_tag, resolved(packet.decoded.rs1),
                                            resolved(packet.decoded.rs2))
    BY <2>1, <2>2 DEF issued
  <2> PICK r1, r2 \in RegisterIndex : r1 = packet.decoded.rs1 /\ r2 = packet.decoded.rs2
    BY <1>1, <2>1, IssuedOperands
  <2> PICK v1, v2 : v1 = resolved(r1) /\ v2 = resolved(r2)
    OBVIOUS
  <2>4. issue_outputs.lsq = Issue!lsq_entry(packet, ROB!next_tag, v1, v2)
    BY <2>3
  <2> HIDE DEF resolved
  <2> DEFINE new == issue_outputs.lsq
  <2>5. /\ new.op = op /\ new.destination = ROB!next_tag /\ new.immediate = immediate
        /\ new.base = v1
        /\ is_store(op) => new.store_data = v2
        /\ ~new.address_ready
    BY <2>4, SameOperations DEF Issue!lsq_entry
  <2> HIDE DEF new
  <2>6. /\ entry.op = new.op /\ entry.destination = new.destination
        /\ entry.immediate = new.immediate /\ base = new.base /\ data = new.store_data
        /\ entry.address_ready /\ ~new.address_ready => AddressIsComputed(entry)
    BY <2>2, EntryStarts DEF new
  <2>7. joins(slot) /\ slot \in RobIndex
    BY <1>1, <2>1, <2>5, <2>6, NewIsUnfinished DEF RobTag
  <2>8. code(slot)' = packet.decoded /\ age(slot)' = rob_count - retired
    BY <1>1, <2>7, InstructionStarts
  <2> PICK m : m = age(slot)'
    OBVIOUS
  <2>9. /\ base = Issue!resolve_register(r1, source_state(r1), broadcast)
        /\ is_store(op) => data = Issue!resolve_register(r2, source_state(r2), broadcast)
        /\ m = rob_count - retired
    BY <2>5, <2>6, <2>8 DEF resolved
  <2>10. RegisterIsRight(base, m, r1)'
    BY <2>1, <2>9, OperandsStartRight
  <2>11. is_store(op) => RegisterIsRight(data, m, r2)'
    BY <2>1, <2>9, OperandsStartRight
  <2>12. entry.address_ready =>
           base.ready /\ entry.address = add(base.value, entry.immediate)
    BY <2>5, <2>6, SameSums DEF AddressIsComputed
  <2> QED
    BY <2>5, <2>6, <2>8, <2>10, <2>11, <2>12 DEF AccessIsRight
<1>4. CASE stays_queued(place)
  <2> PICK old : old = lsq_cur[place]
    OBVIOUS
  <2>1. old # None /\ ~flush /\ Continues(entry, old, place = lsq_head /\ sends)
    BY <1>1, <1>4, CycleOfTheQueue DEF stays_queued
  <2>2. /\ old \in LSQ!LSQEntry /\ Unfinished(old.destination) /\ old.destination \in RobTag
    BY <1>1, <2>1, SameRecords DEF QueueBacked, TypeOK, LsqTypeOK, Maybe
  <2>3. slot = old.destination.index /\ slot \in RobIndex /\ stays(slot)
    BY <1>1, <2>1, <2>2, UnfinishedStays DEF Continues
  <2>4. AccessIsRight(old, slot) /\ rob_cur[slot] # None
    BY <2>1, <2>3 DEF QueueIsRight, stays
  <2>5. /\ code(slot)' = code(slot) /\ code(slot) \in DecodedInstruction
    BY <1>1, <2>3, <2>4, InstructionStays, CodeIsInstruction
  <2> PICK r1, r2 \in RegisterIndex : r1 = code(slot).rs1 /\ r2 = code(slot).rs2
    BY <2>5 DEF DecodedInstruction
  <2>6. /\ awaited(old.base, old.destination) /\ awaited(old.store_data, old.destination)
    BY <1>1, <2>1 DEF WakeUpStillToCome
  <2>7. /\ base = RS!wake_operand(old.base, broadcast)
        /\ is_store(old.op) => data = RS!wake_operand(old.store_data, broadcast)
        /\ entry.op = old.op /\ entry.immediate = old.immediate
    BY <1>2, <2>1 DEF Continues
  <2>8. /\ RegisterIsRight(old.base, age(slot), r1)
        /\ is_store(old.op) => RegisterIsRight(old.store_data, age(slot), r2)
    BY <2>4 DEF AccessIsRight
  <2>9. RegisterIsRight(base, age(slot), r1)'
    BY <2>3, <2>6, <2>7, <2>8, RegistersStayRight
  <2>10. is_store(old.op) => RegisterIsRight(data, age(slot), r2)'
    BY <2>3, <2>6, <2>7, <2>8, RegistersStayRight
  <2>11. entry.address_ready =>
           base.ready /\ entry.address = add(base.value, entry.immediate)
    <3>1. CASE old.address_ready
      <4>1. /\ old.base.ready /\ old.address = add(old.base.value, old.immediate)
            /\ entry.address = old.address
        BY <2>1, <2>4, <3>1 DEF AccessIsRight, Continues
      <4>2. base = old.base
        BY <2>7, <4>1 DEF RS!wake_operand
      <4> QED
        BY <2>7, <4>1, <4>2
    <3>2. CASE ~old.address_ready
      BY <2>1, <3>2, SameSums DEF Continues, AddressIsComputed
    <3> QED
      BY <3>1, <3>2
  <2> QED
    BY <2>4, <2>5, <2>7, <2>9, <2>10, <2>11 DEF AccessIsRight
<1> QED
  BY <1>1, <1>3, <1>4, CycleOfTheQueue

----------------------------------------------------------------------------
(* What memory holds. *)

(* Memory serves the store that is the head of both queues. *)
StoreIsServed ==
  /\ transaction # None /\ transaction.remaining_cycles = 1
  /\ asked /\ is_store(LSQ!front.op)
  /\ transaction.request = LSQ!make_memory_request(LSQ!front)
  /\ ROB!front # None /\ ROB!front.tag = LSQ!front.destination

(* Only that writes memory. *)
LEMMA MemoryFollows ==
  ASSUME FlowInv, Cycle
  PROVE  memory' = IF /\ StoreIsServed
                      /\ in_bounds(LSQ!front.address, LSQ!memory_width(LSQ!front.op))
                   THEN write(memory, LSQ!front.address, LSQ!memory_width(LSQ!front.op),
                              LSQ!front.store_data.value)
                   ELSE memory
<1> DEFINE request == transaction.request
<1>1. /\ TypeOK /\ TransactionIsKnown /\ RequestsAreTimely
      /\ memory' = IF MEM!completes THEN MEM!written(transaction.request) ELSE memory
  BY FlowFacts, CycleParts DEF FlowInv, MemoryInv, MEM!apply
<1>2. MEM!completes <=> transaction # None /\ transaction.remaining_cycles = 1
  BY DEF MEM!completes
<1>3. transaction # None /\ request.is_store =>
        asked /\ request = LSQ!make_memory_request(LSQ!front)
  BY <1>1 DEF TransactionIsKnown
<1>4. asked /\ request = LSQ!make_memory_request(LSQ!front) =>
        /\ request.is_store <=> is_store(LSQ!front.op)
        /\ request.address = LSQ!front.address
        /\ request.width = LSQ!memory_width(LSQ!front.op)
        /\ is_store(LSQ!front.op) => request.value = LSQ!front.store_data.value
  <2>1. LSQ!is_store(LSQ!front.op) <=> is_store(LSQ!front.op)
    BY SameOperations
  <2> QED
    BY <2>1 DEF LSQ!make_memory_request
<1>5. StoreIsServed <=> MEM!completes /\ request.is_store
  BY <1>1, <1>2, <1>3, <1>4 DEF StoreIsServed, RequestsAreTimely
<1>6. MEM!completes =>
        MEM!written(request) = IF request.is_store /\ in_bounds(request.address, request.width)
                               THEN write(memory, request.address, request.width, request.value)
                               ELSE memory
  BY SameMemory DEF MEM!written
<1> HIDE DEF request
<1> QED
  BY <1>1, <1>2, <1>3, <1>4, <1>5, <1>6 DEF request

(* The head of the ring, as a slot. *)
LEMMA HeadOfTheRing ==
  ASSUME TypeOK, RobContiguous
  PROVE  /\ rob_head \in RobIndex /\ age(rob_head) = 0
         /\ ROB!front # None <=> rob_cur[rob_head] # None
         /\ ROB!front # None => ROB!front = rob_cur[rob_head]
         /\ commit # None <=> rob_cur[rob_head] # None /\ rob_cur[rob_head].ready
         /\ rob_count = 0 <=> rob_cur[rob_head] = None
<1>1. rob_head \in RobIndex /\ rob_count \in Nat /\ age(rob_head) = 0
  BY Ages DEF TypeOK, RobTypeOK
<1>2. rob_cur[rob_head] # None <=> 0 < rob_count
  BY <1>1 DEF RobContiguous
<1>3. ROB!front = IF rob_count = 0 THEN None ELSE rob_cur[rob_head]
  BY DEF ROB!front, ROB!empty
<1> QED
  BY <1>1, <1>2, <1>3 DEF commit, ROB!commit

(* A load that has its value has it from before the stores that wait. *)
LEMMA DoneLoadsSeeNoStore ==
  ASSUME FlowInv, LoadsAreOlder, Cycle, NEW slot \in RobIndex, rob_cur[slot] # None,
         is_load(rob_cur[slot].op), Abandoned(rob_cur[slot].tag)
  PROVE  memory' = memory
<1>1. RingInv /\ TypeOK /\ RobContiguous /\ LsqContiguous /\ QueueBacked
  BY FlowFacts DEF RingInv
<1> SUFFICES ASSUME StoreIsServed PROVE FALSE
  BY MemoryFollows
<1>2. LSQ!front # None /\ ROB!front # None /\ ROB!front.tag = LSQ!front.destination
  BY DEF StoreIsServed, asked
<1>3. lsq_head \in LSQ!Slot /\ lsq_cur[lsq_head] # None /\ LSQ!front = lsq_cur[lsq_head]
  BY <1>1, <1>2, HeadOfTheQueue
<1>4. ROB!front = rob_cur[rob_head] /\ rob_head \in RobIndex /\ age(rob_head) = 0
  BY <1>1, <1>2, HeadOfTheRing
<1>5. LSQ!front.destination.index = rob_head
  BY <1>1, <1>2, <1>4, TagTellsSlot
<1>6. age(slot) < 0 /\ age(slot) \in Nat
  BY <1>1, <1>3, <1>4, <1>5, Ages DEF LoadsAreOlder
<1> QED
  BY <1>6

LEMMA LoadsStay ==
  ASSUME FlowInv, CodeIsDecoded, Cycle, CodeInFlightStays, NEW slot \in RobIndex, stays(slot),
         memory' = memory, NEW value, Loads(slot, value)
  PROVE  Loads(slot, value)'
<1>1. RingInv /\ TypeOK
  BY FlowFacts
<1>2. /\ code(slot)' = code(slot) /\ SameInstruction(rob_cur'[slot], rob_cur[slot])
      /\ rob_cur[slot] # None
  BY <1>1, InstructionStays
<1> PICK r \in RegisterIndex : r = code(slot).rs1
  BY <1>1, <1>2, CodeIsInstruction DEF DecodedInstruction
<1> DEFINE op == rob_cur[slot].op
           width == LSQ!memory_width(op)
           address(base) == add(base, code(slot).immediate)
<1> PICK base \in Word :
      /\ Provides(age(slot), r, base)
      /\ in_bounds(address(base), width)
      /\ value = LSQ!extend_load_result(op, read(memory, address(base), width))
  BY DEF Loads
<1> PICK n, m : n = age(slot) /\ m = age(slot)'
  OBVIOUS
<1>3. Provides(m, r, base)'
  <2>1. ~flush /\ Ageing(n, m)
    BY <1>1, StayingAges
  <2>2. Provides(n, r, base)
    OBVIOUS
  <2> QED
    BY <2>1, <2>2, ValuesStay
<1>4. Provides(age(slot), code(slot).rs1, base)'
  BY <1>2, <1>3
<1>5. LSQ!memory_width(rob_cur'[slot].op) = width
      /\ LSQ!extend_load_result(rob_cur'[slot].op, read(memory', address(base), width)) = value
  BY <1>2 DEF SameInstruction
<1> QED
  BY <1>2, <1>4, <1>5 DEF Loads

(* The result the load queue holds is right for its instruction. *)
LEMMA CycleKeepsBufferRight ==
  ASSUME FlowInv, CodeIsDecoded, QueueIsRight, BufferIsRight, LoadsAreOlder, AnswerIsRight,
         Cycle, CodeInFlightStays
  PROVE  BufferIsRight'
<1>1. /\ RingInv /\ TypeOK /\ LsqContiguous /\ QueueBacked /\ ResultsBacked /\ ResultsDiffer
      /\ RequestsAreFinal /\ ResponseIsKnown
  BY FlowFacts DEF FlowInv, MemoryInv
<1> SUFFICES ASSUME lsq_load_result' # None
             PROVE  /\ Loads(lsq_load_result.tag.index, lsq_load_result.result)'
                    /\ ~lsq_load_result'.has_control_result
  BY DEF BufferIsRight
<1> PICK result : result = lsq_load_result'
  OBVIOUS
<1> PICK slot, value : slot = result.tag.index /\ value = result.result
  OBVIOUS
<1> SUFFICES /\ slot \in RobIndex /\ stays(slot) /\ memory' = memory
             /\ Loads(slot, value) /\ ~result.has_control_result
  BY LoadsStay
<1>2. CASE /\ removed /\ lsq_cur[lsq_head] # None /\ is_load(lsq_cur[lsq_head].op)
           /\ lsq_load_result'.tag = lsq_cur[lsq_head].destination
  <2> PICK entry : entry = lsq_cur[lsq_head]
    OBVIOUS
  <2>1. /\ asked /\ LSQ!front = entry /\ transaction = None /\ lsq_head \in LSQ!Slot
        /\ entry \in LSQ!LSQEntry
    BY <1>1, <1>2, AnswersWereAsked, HeadOfTheQueue
  <2>2. /\ Unfinished(entry.destination) /\ entry.destination \in RobTag
        /\ entry.op = operation_of(entry.destination) /\ entry.base.value \in Word
    BY <1>1, <1>2, <2>1, SameRecords DEF QueueBacked, Operand
  <2>3. /\ ~flush /\ LSQ!matching_response(response) /\ response.success /\ response # None
    BY <1>2 DEF removed, LSQ!remove_head, LSQ!matching_response
  <2>4. /\ slot \in RobIndex /\ stays(slot) /\ entry.op = rob_cur[slot].op
    BY <1>1, <1>2, <2>2, <2>3, UnfinishedStays DEF operation_of
  <2>5. memory' = memory
    BY <2>1, MemoryFollows DEF StoreIsServed
  <2> DEFINE width == LSQ!memory_width(entry.op)
  <2>6. in_bounds(entry.address, width) /\ response.value = read(memory, entry.address, width)
    BY <1>2, <2>1, <2>3 DEF AnswerIsRight
  <2>7. value = LSQ!extend_load_result(entry.op, response.value) /\ ~result.has_control_result
    BY <1>2, ResultsFollow
  <2>8. AccessIsRight(entry, slot) /\ entry.address_ready
    BY <1>1, <1>2, <2>1 DEF QueueIsRight, RequestsAreFinal, asked
  <2>9. /\ Provides(age(slot), code(slot).rs1, entry.base.value)
        /\ entry.address = add(entry.base.value, code(slot).immediate)
    BY <2>8 DEF AccessIsRight, RegisterIsRight
  <2>10. Loads(slot, value)
    BY <2>2, <2>4, <2>6, <2>7, <2>9 DEF Loads
  <2> QED
    BY <2>4, <2>5, <2>7, <2>10
<1>3. CASE /\ ~flush /\ lsq_load_result # None /\ ~load_granted
           /\ lsq_load_result' = lsq_load_result
  <2>1. /\ Unfinished(result.tag) /\ result.tag \in RobTag /\ is_load(operation_of(result.tag))
        /\ Abandoned(result.tag)
    BY <1>1, <1>3 DEF ResultsBacked, ResultsDiffer, Abandoned, TypeOK, LsqTypeOK, FUResult, Maybe
  <2>2. /\ slot \in RobIndex /\ stays(slot) /\ rob_cur[slot] # None
        /\ rob_cur[slot].tag = result.tag /\ is_load(rob_cur[slot].op)
    BY <1>1, <1>3, <2>1, UnfinishedStays DEF operation_of
  <2>3. memory' = memory
    BY <2>1, <2>2, DoneLoadsSeeNoStore
  <2> QED
    BY <1>3, <2>2, <2>3 DEF BufferIsRight
<1> QED
  BY <1>2, <1>3, ResultsFollow

(* So are the results that are recorded. *)
LEMMA CycleKeepsResultsRight ==
  ASSUME FlowInv, CodeIsDecoded, UnitIsRight, BufferIsRight, ResultsAreRight, LoadsAreOlder,
         Cycle, CodeInFlightStays
  PROVE  ResultsAreRight'
<1>1. /\ RingInv /\ TypeOK /\ RobContiguous /\ LsqContiguous /\ QueueBacked /\ ResultsBacked
      /\ ResultsDiffer /\ ResponseIsKnown /\ RequestsAreTimely
  BY FlowFacts DEF FlowInv, MemoryInv, RingInv
<1> SUFFICES ASSUME NEW slot \in RobIndex, rob_cur'[slot] # None, rob_cur'[slot].ready,
                    NEW op, op = rob_cur'[slot].op
             PROVE  /\ FU!executable(op) =>
                         Computes(slot, rob_cur[slot].value, rob_cur[slot].actual_next_pc)'
                    /\ is_load(op) => Loads(slot, rob_cur[slot].value)'
                    /\ is_store(op) => slot = rob_head'
  BY DEF ResultsAreRight, FU!executable, is_load, is_store, FU!is_load, FU!is_store
<1>2. \A x : FU!executable(x) =>
               ~is_load(x) /\ ~is_store(x) /\ x # "HALT" /\ x # "INVALID"
  BY Executables, Kinds
<1>3. CASE stays(slot) /\ rob_cur[slot].ready
  <2>1. rob_cur'[slot] = rob_cur[slot] /\ rob_cur[slot] # None
    BY <1>3, FinishedStays DEF stays
  <2> PICK value, next : value = rob_cur[slot].value /\ next = rob_cur[slot].actual_next_pc
    OBVIOUS
  <2>2. FU!executable(op) => Computes(slot, value, next)'
    BY <1>3, <2>1, ComputesStays DEF ResultsAreRight
  <2>3. is_load(op) => Loads(slot, value)'
    <3> SUFFICES ASSUME is_load(op) PROVE Loads(slot, value)'
      OBVIOUS
    <3>1. Abandoned(rob_cur[slot].tag)
      BY <1>1, <1>3, <2>1, TagTellsSlot DEF Abandoned, QueueBacked, Unfinished
    <3>2. memory' = memory
      BY <2>1, <3>1, DoneLoadsSeeNoStore
    <3> QED
      BY <1>3, <2>1, <3>2, LoadsStay DEF ResultsAreRight
  <2>4. ~is_store(op)
    <3>1. is_store(op) => slot = rob_head
      BY <1>3, <2>1 DEF ResultsAreRight
    <3>2. slot = rob_head => commit # None
      BY <1>1, <1>3, <2>1, HeadOfTheRing
    <3> QED
      BY <1>3, <3>1, <3>2 DEF stays
  <2> QED
    BY <2>1, <2>2, <2>3, <2>4
<1>4. CASE stays(slot) /\ ~rob_cur[slot].ready
  <2>1. /\ rob_cur[slot] # None /\ rob_cur[slot].tag.index = slot
        /\ SameInstruction(rob_cur'[slot], rob_cur[slot]) /\ ~flush
        /\ rob_cur[slot] \in ROB!ROBEntry
    <3>1. rob_cur[slot] # None /\ ~flush
      BY <1>4 DEF stays
    <3>2. SameInstruction(rob_cur'[slot], rob_cur[slot])
      BY <1>1, <1>4, CycleOfTheRing
    <3>3. rob_cur[slot] \in ROB!ROBEntry
      BY <1>1, <3>1 DEF TypeOK, RobTypeOK, Maybe
    <3> QED
      BY <1>1, <3>1, <3>2, <3>3, TagTellsSlot
  <2> PICK tag \in RobTag : tag = rob_cur[slot].tag
    BY <2>1, SameRecords
  <2>2. Unfinished(tag) /\ op = operation_of(tag) /\ rob_cur'[slot].tag = tag
    BY <1>4, <2>1, NoneAssumption DEF Unfinished, ROB!matching_entry, operation_of, SameInstruction
  <2>3. completed(tag)
    <3>1. Unfinished(tag)' <=> ~completed(tag)
      BY <1>1, <2>1, <2>2, UnfinishedStays
    <3>2. ~Unfinished(tag)'
      BY <2>1 DEF Unfinished
    <3> QED
      BY <3>1, <3>2
  <2>4. CASE /\ integer_granted /\ fu_result # None /\ fu_result.tag = tag
             /\ Issue!need_rs(operation_of(tag))
    <3> PICK value, next : value = fu_result.result /\ next = fu_result.actual_next_pc
      OBVIOUS
    <3>1. completion = fu_result
      BY <1>1, <2>4, CycleOfTheBus
    <3>2. /\ rob_cur'[slot].value = value
          /\ rob_cur'[slot].actual_next_pc = IF fu_result.has_control_result THEN next
                                             ELSE rob_cur[slot].actual_next_pc
      BY <1>4, <2>4, <3>1, ResultIsRecorded
    <3>3. /\ Computes(slot, value, next)
          /\ fu_result.has_control_result <=> is_control(op)
      BY <2>1, <2>2, <2>4 DEF UnitIsRight
    <3>4. Computes(slot, value, rob_cur'[slot].actual_next_pc)
      BY <2>1, <2>2, <3>2, <3>3 DEF Computes, operation_of
    <3> PICK next2 : next2 = rob_cur'[slot].actual_next_pc
      OBVIOUS
    <3>5. Computes(slot, value, next2)'
      BY <1>4, <3>4, ComputesStays
    <3>6. ~is_load(op) /\ ~is_store(op)
      BY <2>2, <2>4, Kinds
    <3> QED
      BY <3>2, <3>5, <3>6
  <2>5. CASE /\ load_granted /\ lsq_load_result # None /\ lsq_load_result.tag = tag
             /\ is_load(operation_of(tag))
    <3> PICK value : value = lsq_load_result.result
      OBVIOUS
    <3>1. rob_cur'[slot].value = value
      BY <1>1, <1>4, <2>5, CycleOfTheBus, ResultIsRecorded
    <3>2. Loads(slot, value)
      BY <2>1, <2>5 DEF BufferIsRight
    <3>3. Abandoned(tag)
      BY <1>1, <2>5 DEF ResultsDiffer, Abandoned
    <3>4. memory' = memory
      BY <2>1, <2>2, <2>5, <3>3, DoneLoadsSeeNoStore DEF operation_of
    <3>5. Loads(slot, value)'
      BY <1>4, <3>2, <3>4, LoadsStay
    <3> QED
      BY <1>2, <2>2, <2>5, <3>1, <3>5, Kinds
  <2>6. CASE /\ removed /\ is_store(operation_of(tag)) /\ LSQ!front = lsq_cur[lsq_head]
             /\ lsq_cur[lsq_head] # None /\ lsq_cur[lsq_head].destination = tag
    <3>1. asked /\ LSQ!front.destination = tag /\ lsq_head \in LSQ!Slot
      BY <1>1, <2>6, AnswersWereAsked, HeadOfTheQueue
    <3>2. is_store(LSQ!front.op)
      BY <1>1, <2>6, <3>1 DEF QueueBacked
    <3>3. ROB!front # None /\ ROB!front.tag = tag
      BY <1>1, <3>1, <3>2 DEF RequestsAreTimely
    <3>4. slot = rob_head
      <4>1. rob_head \in RobIndex /\ rob_cur[rob_head] # None /\ rob_cur[rob_head].tag = tag
        BY <1>1, <3>3, HeadOfTheRing
      <4>2. rob_cur[rob_head].tag.index = rob_head
        BY <1>1, <4>1, TagTellsSlot
      <4>3. tag.index = slot
        BY <2>1
      <4> QED
        BY <4>1, <4>2, <4>3
    <3>5. rob_head' = rob_head
      <4>1. commit = None
        BY <1>1, <1>4, <3>4, HeadOfTheRing
      <4>2. ROB!advance(issue_outputs.rob, completion, store_completion)
        BY <1>1, <2>1, CycleParts, RobHead DEF ROB!apply
      <4> QED
        BY <4>1, <4>2 DEF ROB!advance, commit
    <3> QED
      BY <1>2, <2>2, <2>6, <3>4, <3>5, Kinds
  <2> QED
    BY <1>1, <2>3, <2>4, <2>5, <2>6, Completions
<1>5. CASE joins(slot)
  <2>1. op = "HALT"
    BY <1>1, <1>5, InstructionStarts
  <2> QED
    BY <1>2, <2>1 DEF is_load, is_store, LoadOps, StoreOps
<1> QED
  BY <1>1, <1>3, <1>4, <1>5, CycleOfTheRing

----------------------------------------------------------------------------
(* The order of the memory instructions. *)

gone == IF removed THEN 1 ELSE 0

(* The load/store queue moves up when its head leaves. *)
LEMMA QueueAges ==
  ASSUME FlowInv, Cycle, NEW place \in LSQ!Slot, lsq_cur'[place] # None
  PROVE  /\ lsq_age(place) \in Nat /\ lsq_count \in Nat
         /\ lsq_age(lsq_head) = 0
         /\ lsq_age(place) = 0 => place = lsq_head
         /\ stays_queued(place) => /\ lsq_age(place)' = lsq_age(place) - gone
                                   /\ lsq_age(place) < lsq_count
         /\ ~stays_queued(place) => lsq_age(place)' = lsq_count - gone
<1>1. /\ TypeOK /\ LsqContiguous /\ ~flush
      /\ LsqCapacity \in Nat /\ LsqCapacity > 0
      /\ lsq_head \in LSQ!Slot /\ lsq_head \in Nat /\ lsq_head < LsqCapacity
      /\ lsq_tail \in LSQ!Slot /\ lsq_tail \in Nat /\ lsq_tail < LsqCapacity
      /\ lsq_count \in Nat /\ lsq_count <= LsqCapacity
      /\ place \in Nat /\ place < LsqCapacity
  BY FlowFacts, QueueFollows, CPUAssumption DEF TypeOK, LsqTypeOK, LSQ!Slot
<1>2. lsq_head' = IF removed THEN IF lsq_head + 1 = LsqCapacity THEN 0 ELSE lsq_head + 1
                  ELSE lsq_head
  BY <1>1, CycleOfTheQueue, QueueFollowing
<1>3. /\ lsq_age(place) \in Nat /\ lsq_age(place) < LsqCapacity
      /\ lsq_age(lsq_head) = 0 /\ (lsq_age(place) = 0 <=> place = lsq_head)
  BY <1>1 DEF lsq_age
<1>4. ~(removed /\ place = lsq_head) => lsq_age(place)' = lsq_age(place) - gone
  <2>1. lsq_age(place)' = IF place >= lsq_head' THEN place - lsq_head'
                          ELSE place + LsqCapacity - lsq_head'
    BY DEF lsq_age
  <2>2. CASE removed
    BY <1>1, <1>2, <2>1, <2>2 DEF lsq_age, gone
  <2>3. CASE ~removed
    BY <1>1, <1>2, <2>1, <2>3 DEF lsq_age, gone
  <2> QED
    BY <2>2, <2>3
<1>5. CASE stays_queued(place)
  BY <1>1, <1>3, <1>4, <1>5 DEF stays_queued, LsqContiguous
<1>6. CASE ~stays_queued(place)
  <2>1. place = lsq_tail /\ lsq_cur[place] = None
    BY <1>1, <1>6, QueueFollows, HeadOfTheQueue DEF joins_queue
  <2>2. ~(removed /\ place = lsq_head)
    BY <1>1, <2>1, AnswersWereAsked, FlowFacts
  <2>3. lsq_age(place) >= lsq_count
    BY <1>1, <1>3, <2>1 DEF LsqContiguous
  <2>4. lsq_age(place) = lsq_count
    BY <1>1, <2>1, <2>3 DEF LsqContiguous, lsq_age
  <2> QED
    BY <1>1, <1>3, <1>4, <1>6, <2>2, <2>4
<1> QED
  BY <1>5, <1>6

(* The slot of a memory instruction in the queue. *)
LEMMA QueuedSlot ==
  ASSUME FlowInv, Cycle, NEW place \in LSQ!Slot, lsq_cur'[place] # None
  PROVE  \E slot \in RobIndex :
           /\ slot = lsq_cur'[place].destination.index
           /\ stays_queued(place) =>
                /\ lsq_cur[place] # None /\ lsq_cur[place].destination.index = slot
                /\ age(slot)' = age(slot) - retired /\ age(slot) < rob_count
                /\ age(slot) \in Nat
           /\ ~stays_queued(place) => age(slot)' = rob_count - retired
<1>1. /\ RingInv /\ TypeOK /\ RobContiguous /\ QueueBacked /\ ~flush
  BY FlowFacts, QueueFollows DEF RingInv
<1>2. CASE stays_queued(place)
  <2>1. /\ lsq_cur[place] # None /\ lsq_cur[place] \in LSQ!LSQEntry
        /\ lsq_cur'[place].destination = lsq_cur[place].destination
    BY <1>1, <1>2, FlowFacts, CycleOfTheQueue
       DEF Continues, stays_queued, TypeOK, LsqTypeOK, Maybe
  <2> PICK tag \in RobTag : tag = lsq_cur[place].destination
    BY <2>1, SameRecords
  <2> PICK slot \in RobIndex : slot = tag.index
    BY DEF RobTag
  <2>2. Unfinished(tag)
    BY <1>1, <2>1 DEF QueueBacked
  <2>3. /\ age(slot)' = age(slot) - retired /\ rob_cur[slot] # None
    BY <1>1, <2>2, UnfinishedStays
  <2>4. age(slot) \in Nat /\ age(slot) < rob_count
    BY <1>1, <2>3, Ages DEF RobContiguous
  <2> QED
    BY <1>2, <2>1, <2>3, <2>4
<1>3. CASE ~stays_queued(place)
  <2>1. /\ issue_outputs.rob # None /\ lsq_cur'[place].destination = ROB!next_tag
        /\ Issue!need_lsq(issue_outputs.rob.op)
    BY <1>3, QueueFollows
  <2> PICK slot : slot = ROB!next_tag.index
    OBVIOUS
  <2>2. slot \in RobIndex /\ joins(slot)
    BY <1>1, <2>1, IssuedEntry DEF joins, TypeOK, RobTypeOK
  <2>3. age(slot)' = rob_count - retired
    BY <1>1, <2>2, CycleOfTheRing
  <2> QED
    BY <1>3, <2>1, <2>2, <2>3
<1> QED
  BY <1>2, <1>3

LEMMA CycleKeepsOrder == FlowInv /\ QueueIsInOrder /\ Cycle => QueueIsInOrder'
<1> SUFFICES ASSUME FlowInv, QueueIsInOrder, Cycle,
                    NEW one \in LSQ!Slot, NEW other \in LSQ!Slot,
                    lsq_cur'[one] # None, lsq_cur'[other] # None,
                    lsq_age(one)' < lsq_age(other)'
             PROVE  age(lsq_cur[one].destination.index)' < age(lsq_cur[other].destination.index)'
  BY DEF QueueIsInOrder
<1> PICK older \in RobIndex :
      /\ older = lsq_cur'[one].destination.index
      /\ stays_queued(one) =>
           /\ lsq_cur[one] # None /\ lsq_cur[one].destination.index = older
           /\ age(older)' = age(older) - retired /\ age(older) < rob_count
           /\ age(older) \in Nat
      /\ ~stays_queued(one) => age(older)' = rob_count - retired
  BY QueuedSlot
<1> PICK younger \in RobIndex :
      /\ younger = lsq_cur'[other].destination.index
      /\ stays_queued(other) =>
           /\ lsq_cur[other] # None /\ lsq_cur[other].destination.index = younger
           /\ age(younger)' = age(younger) - retired /\ age(younger) < rob_count
           /\ age(younger) \in Nat
      /\ ~stays_queued(other) => age(younger)' = rob_count - retired
  BY QueuedSlot
<1> SUFFICES age(older)' < age(younger)'
  OBVIOUS
<1>1. retired \in {0, 1} /\ rob_count \in Nat /\ gone \in {0, 1}
  BY FlowFacts, Retiring DEF TypeOK, RobTypeOK, gone
<1>2. stays_queued(one)
  BY <1>1, QueueAges
<1>3. CASE stays_queued(other)
  <2>1. lsq_age(one) < lsq_age(other)
    BY <1>1, <1>2, <1>3, QueueAges
  <2>2. age(older) < age(younger)
    BY <1>2, <1>3, <2>1 DEF QueueIsInOrder
  <2> QED
    BY <1>1, <1>2, <1>3, <2>2
<1>4. CASE ~stays_queued(other)
  BY <1>1, <1>2, <1>4
<1> QED
  BY <1>3, <1>4

LEMMA CycleKeepsLoadsOlder ==
  FlowInv /\ QueueIsInOrder /\ LoadsAreOlder /\ Cycle => LoadsAreOlder'
<1> SUFFICES ASSUME FlowInv, QueueIsInOrder, LoadsAreOlder, Cycle,
                    NEW slot \in RobIndex, rob_cur'[slot] # None, is_load(rob_cur'[slot].op),
                    Abandoned(rob_cur[slot].tag)',
                    NEW place \in LSQ!Slot, lsq_cur'[place] # None
             PROVE  age(slot)' < age(lsq_cur[place].destination.index)'
  BY DEF LoadsAreOlder, is_load
<1>1. /\ RingInv /\ TypeOK /\ RobContiguous /\ LsqContiguous /\ ~flush
      /\ retired \in {0, 1} /\ rob_count \in Nat
  BY FlowFacts, Retiring, QueueFollows DEF RingInv, TypeOK, RobTypeOK
<1> PICK younger \in RobIndex :
      /\ younger = lsq_cur'[place].destination.index
      /\ stays_queued(place) =>
           /\ lsq_cur[place] # None /\ lsq_cur[place].destination.index = younger
           /\ age(younger)' = age(younger) - retired /\ age(younger) < rob_count
           /\ age(younger) \in Nat
      /\ ~stays_queued(place) => age(younger)' = rob_count - retired
  BY QueuedSlot
<1> SUFFICES age(slot)' < age(younger)'
  OBVIOUS
<1> PICK tag : tag = rob_cur'[slot].tag
  OBVIOUS
<1>2. \A other \in LSQ!Slot : lsq_cur'[other] # None => lsq_cur'[other].destination # tag
  BY DEF Abandoned
<1>3. ~joins(slot)
  <2> SUFFICES ASSUME joins(slot) PROVE FALSE
    OBVIOUS
  <2>1. issue_outputs.rob # None /\ rob_cur'[slot] = issue_outputs.rob
    BY <1>1, CycleOfTheRing DEF joins
  <2>2. Issue!need_lsq(issue_outputs.rob.op)
    BY <2>1, Kinds
  <2>3. issue_outputs.lsq # None /\ tag = ROB!next_tag /\ lsq_tail \in LSQ!Slot
    BY <1>1, <2>1, <2>2, IssuedParts, IssuedEntry, HeadOfTheQueue
  <2>4. joins_queue(lsq_tail) /\ ~stays_queued(lsq_tail)
    BY <1>1, <2>3, HeadOfTheQueue DEF joins_queue, stays_queued
  <2>5. lsq_cur'[lsq_tail] # None
    BY <1>1, <2>3, <2>4, CycleOfTheQueue
  <2>6. lsq_cur'[lsq_tail].destination = ROB!next_tag
    BY <2>3, <2>4, <2>5, QueueFollows
  <2> QED
    BY <1>2, <2>3, <2>5, <2>6
<1>4. /\ stays(slot) /\ rob_cur[slot] # None /\ age(slot)' = age(slot) - retired
      /\ age(slot) < rob_count /\ age(slot) \in Nat
      /\ is_load(rob_cur[slot].op) /\ tag = rob_cur[slot].tag
  <2>1. stays(slot)
    BY <1>1, <1>3, CycleOfTheRing
  <2>2. /\ rob_cur[slot] # None /\ age(slot)' = age(slot) - retired
        /\ SameInstruction(rob_cur'[slot], rob_cur[slot])
    BY <1>1, <2>1, CycleOfTheRing DEF stays
  <2> QED
    BY <1>1, <2>1, <2>2, Ages DEF SameInstruction, RobContiguous
<1>5. CASE ~stays_queued(place)
  BY <1>1, <1>4, <1>5
<1>6. CASE stays_queued(place) /\ Abandoned(tag)
  <2>1. age(slot) < age(younger)
    BY <1>4, <1>6 DEF LoadsAreOlder
  <2> QED
    BY <1>1, <1>4, <1>6, <2>1
<1>7. CASE stays_queued(place) /\ ~Abandoned(tag)
  <2> PICK other \in LSQ!Slot : lsq_cur[other] # None /\ lsq_cur[other].destination = tag
    BY <1>7 DEF Abandoned
  <2>1. ~stays_queued(other)
    <3> SUFFICES ASSUME stays_queued(other) PROVE FALSE
      OBVIOUS
    <3>1. lsq_cur'[other] # None /\ lsq_cur'[other].destination = tag
      BY <1>1, CycleOfTheQueue DEF Continues
    <3> QED
      BY <1>2, <3>1
  <2>2. other = lsq_head /\ removed
    BY <1>1, <2>1 DEF stays_queued
  <2>3. lsq_age(other) = 0 /\ lsq_age(place) \in Nat /\ lsq_age(place) # 0
    BY <1>7, <2>2, QueueAges DEF stays_queued
  <2>4. tag.index = slot
    BY <1>1, <1>4, TagTellsSlot
  <2>5. age(slot) < age(younger)
    BY <1>7, <2>3, <2>4 DEF QueueIsInOrder
  <2> QED
    BY <1>1, <1>4, <1>7, <2>5
<1> QED
  BY <1>5, <1>6, <1>7

(* The answer to a load is what memory holds. *)
LEMMA CycleKeepsAnswerRight == FlowInv /\ Cycle => AnswerIsRight'
<1> SUFFICES ASSUME FlowInv, Cycle, response' # None, asked', LSQ!matching_response(response)',
                    response'.success, is_load(LSQ!front'.op)
             PROVE  LET width == LSQ!memory_width(LSQ!front'.op)
                    IN  /\ in_bounds(LSQ!front'.address, width)
                        /\ response'.value = read(memory', LSQ!front'.address, width)
  BY DEF AnswerIsRight, is_load
<1>1. TypeOK /\ TransactionIsKnown
  BY FlowFacts DEF FlowInv, MemoryInv
<1>2. /\ transaction # None /\ transaction.remaining_cycles = 1 /\ ~sends
      /\ response'.tag = transaction.request.tag
  BY <1>1, CycleOfMemory
<1>3. /\ asked /\ LSQ!front'.op = LSQ!front.op
      /\ LSQ!front'.destination = LSQ!front.destination
      /\ LSQ!make_memory_request(LSQ!front)' = LSQ!make_memory_request(LSQ!front)
      /\ ~Abandoned(LSQ!front.destination)
  BY <1>2, AskedBefore
<1>4. LSQ!front'.destination = response'.tag
  BY DEF LSQ!matching_response
<1> DEFINE request == LSQ!make_memory_request(LSQ!front)
           width == LSQ!memory_width(LSQ!front.op)
<1>5. transaction.request = request
  BY <1>1, <1>2, <1>3, <1>4 DEF TransactionIsKnown
<1>6. LSQ!front'.address = LSQ!front.address
  <2>1. LSQ!make_memory_request(LSQ!front)'.address = LSQ!front'.address
    BY DEF LSQ!make_memory_request
  <2>2. LSQ!make_memory_request(LSQ!front).address = LSQ!front.address
    BY DEF LSQ!make_memory_request
  <2> QED
    BY <1>3, <2>1, <2>2
<1>7. /\ ~request.is_store /\ request.address = LSQ!front.address /\ request.width = width
  BY <1>3, SameOperations, Kinds DEF LSQ!make_memory_request
<1>8. response' = MEM!response_to(request)
  BY <1>2, <1>5, CycleParts DEF MEM!apply, MEM!completes
<1>9. memory' = memory
  BY <1>3, MemoryFollows, Kinds DEF StoreIsServed
<1> HIDE DEF request
<1>10. /\ response'.success = in_bounds(LSQ!front.address, width)
       /\ LET value == read(memory, LSQ!front.address, width)
          IN  response'.value = IF value = None THEN 0 ELSE value
  BY <1>7, <1>8, SameMemory DEF MEM!response_to
<1>11. in_bounds(LSQ!front.address, width) => read(memory, LSQ!front.address, width) # None
  <2>1. LSQ!front # None /\ LSQ!front \in LSQ!LSQEntry
    BY <1>1, <1>3, QueueHead DEF asked, Maybe
  <2>2. LSQ!front.address \in Word /\ width \in MemoryWidth
    BY <2>1, SameRecords DEF LSQ!memory_width, MemoryWidth, BYTE, HALF, WORD
  <2> QED
    BY <1>1, <2>2, Reading, SameMemory, NothingAssumption DEF TypeOK
<1> QED
  BY <1>3, <1>6, <1>9, <1>10, <1>11

----------------------------------------------------------------------------
LEMMA CycleKeepsRight == FlowInv /\ RightInv /\ Cycle /\ CodeInFlightStays => RightInv'
<1> SUFFICES ASSUME FlowInv, RightInv, Cycle, CodeInFlightStays PROVE RightInv'
  OBVIOUS
<1>1. /\ RingInv /\ StoppedBehindHalt
      /\ CodeIsDecoded /\ PathIsPredicted /\ StationsAreRight /\ QueueIsRight
      /\ UnitIsRight /\ BufferIsRight /\ ResultsAreRight
      /\ QueueIsInOrder /\ LoadsAreOlder /\ AnswerIsRight
  BY FlowFacts DEF FlowInv, IInv, RightInv, OperandsAreRight, FinishedIsRight, MemoryIsOrdered
<1>2. CodeIsDecoded' /\ PathIsPredicted'
  BY <1>1, CycleKeepsCode, CycleKeepsPath
<1>3. OperandsAreRight'
  BY <1>1, CycleKeepsStationsRight, CycleKeepsQueueRight DEF OperandsAreRight
<1>4. FinishedIsRight'
  BY <1>1, CycleKeepsUnitRight, CycleKeepsBufferRight, CycleKeepsResultsRight DEF FinishedIsRight
<1>5. MemoryIsOrdered'
  BY <1>1, CycleKeepsOrder, CycleKeepsLoadsOlder, CycleKeepsAnswerRight DEF MemoryIsOrdered
<1> QED
  BY <1>2, <1>3, <1>4, <1>5 DEF RightInv

(* With nothing in flight, nothing can be wrong. *)
LEMMA NothingIsWrong == RingIsEmpty /\ NothingIsHeld => RightInv
BY DEF RingIsEmpty, NothingIsHeld, RightInv, CodeIsDecoded, PathIsPredicted, OperandsAreRight,
       StationsAreRight, QueueIsRight, FinishedIsRight, UnitIsRight, BufferIsRight,
       ResultsAreRight, MemoryIsOrdered, QueueIsInOrder, LoadsAreOlder, AnswerIsRight, asked

LEMMA InitIsRight == Init => RightInv
<1>1. Init => NothingIsHeld
  BY SameSignals DEF Init, NothingIsHeld, RS!Init, RS!no_entries, LSQ!Init, LSQ!no_entries,
     FU!Init, MEM!Init
<1> QED
  BY <1>1, InitEmpties, NothingIsWrong

LEMMA LoadIsRight == Load => RightInv'
<1>1. Load => NothingIsHeld'
  BY SameSignals DEF Load, NothingIsHeld, RS!reset, RS!no_entries, LSQ!reset, LSQ!no_entries,
     FU!reset, MEM!load, MEM!reset
<1> QED
  BY <1>1, LoadEmpties, NothingIsWrong, PTL

LEMMA StutterIsRight == RightInv /\ UNCHANGED vars => RightInv'
<1> SUFFICES ASSUME RightInv, UNCHANGED vars PROVE RightInv'
  OBVIOUS
<1>1. /\ rob_cur' = rob_cur /\ rob_head' = rob_head /\ rob_count' = rob_count
      /\ rs_cur' = rs_cur /\ fu_result' = fu_result /\ register' = register
      /\ lsq_cur' = lsq_cur /\ lsq_head' = lsq_head /\ lsq_count' = lsq_count
      /\ lsq_load_result' = lsq_load_result
      /\ memory' = memory /\ response' = response /\ current_pc' = current_pc
  BY DEF vars, coreVars
<1>2. /\ \A slot : code(slot)' = code(slot) /\ age(slot)' = age(slot)
      /\ asked' = asked /\ LSQ!front' = LSQ!front
  BY <1>1 DEF code, age, asked, LSQ!front, LSQ!empty
<1>3. CodeIsDecoded' /\ PathIsPredicted'
  BY <1>1, <1>2 DEF RightInv, CodeIsDecoded, PathIsPredicted
<1>4. \A n, r, x : /\ older_writers(n, r)' = older_writers(n, r)
                   /\ is_source(x, n, r)' <=> is_source(x, n, r)
                   /\ Provides(n, r, x)' <=> Provides(n, r, x)
                   /\ Awaits(n, r, x)' <=> Awaits(n, r, x)
                   /\ RegisterIsRight(x, n, r)' <=> RegisterIsRight(x, n, r)
  BY <1>1, <1>2 DEF older_writers, writers, is_source, Provides, Awaits, RegisterIsRight
<1>5. StationsAreRight' /\ QueueIsRight'
  BY <1>1, <1>2, <1>4 DEF RightInv, OperandsAreRight, StationsAreRight, QueueIsRight,
     StationIsRight, AccessIsRight, OperandIsRight, constant_source
<1>6. \A slot, x, y : Computes(slot, x, y) => Computes(slot, x, y)'
  <2>1. \A source, slot, r, x : Supplies(source, slot, r, x)' <=> Supplies(source, slot, r, x)
    BY <1>1, <1>2, <1>4 DEF Supplies, constant_source
  <2>2. \A slot, lhs, rhs : execution(slot, lhs, rhs)' = execution(slot, lhs, rhs)
    BY <1>1, <1>2 DEF execution
  <2> SUFFICES ASSUME NEW slot, NEW x, NEW y, Computes(slot, x, y)
               PROVE  Computes(slot, x, y)'
    OBVIOUS
  <2> PICK lhs, rhs \in Word :
        /\ Supplies(lhs_source(rob_cur[slot].op), slot, code(slot).rs1, lhs)
        /\ Supplies(rhs_source(rob_cur[slot].op), slot, code(slot).rs2, rhs)
        /\ x = FU!result_of(execution(slot, lhs, rhs))
        /\ is_control(rob_cur[slot].op) => y = FU!next_pc_of(execution(slot, lhs, rhs))
    BY DEF Computes
  <2>4. /\ Supplies(lhs_source(rob_cur[slot].op), slot, code(slot).rs1, lhs)'
        /\ Supplies(rhs_source(rob_cur[slot].op), slot, code(slot).rs2, rhs)'
    BY <1>1, <1>2, <2>1
  <2>5. /\ x = FU!result_of(execution(slot, lhs, rhs)')
        /\ is_control(rob_cur'[slot].op) => y = FU!next_pc_of(execution(slot, lhs, rhs)')
    BY <1>1, <2>2
  <2> QED
    BY <2>4, <2>5 DEF Computes
<1>7. \A slot, x : Loads(slot, x)' <=> Loads(slot, x)
  BY <1>1, <1>2, <1>4 DEF Loads
<1>8. FinishedIsRight'
  BY <1>1, <1>2, <1>6, <1>7 DEF RightInv, FinishedIsRight, UnitIsRight, BufferIsRight,
     ResultsAreRight, operation_of
<1>9. MemoryIsOrdered'
  BY <1>1, <1>2 DEF RightInv, MemoryIsOrdered, QueueIsInOrder, LoadsAreOlder, AnswerIsRight,
     lsq_age, Abandoned, LSQ!matching_response
<1> QED
  BY <1>3, <1>5, <1>8, <1>9 DEF RightInv, OperandsAreRight

(* Whatever is in flight has what the interpreter would give it: the       *)
(* renaming, the wake-ups and the same-cycle bypass (issue_unit.cpp:26-31) *)
(* bring each operand the value of its youngest older writer, and memory's *)
(* answers are what the older stores have left there                       *)
(* (load_store_queue.cpp) -- as long as no instruction in flight is        *)
(* written over, which fetching (cpu.cpp:170-192) takes no notice of.      *)
THEOREM RightInvariance == Spec /\ [][CodeInFlightStays]_vars => []RightInv
<1>1. FlowInv /\ RightInv /\ [MainNext]_vars /\ [CodeInFlightStays]_vars => RightInv'
  BY CycleKeepsRight, LoadIsRight, StutterIsRight DEF MainNext, LoadOnce
<1> QED
  BY <1>1, InitIsRight, FlowInvariance, PTL DEF Spec

----------------------------------------------------------------------------
(* The interpreter computes as the components do. *)

LEMMA SameSizes ==
  /\ Sequential!ByteSize = ByteSize /\ Sequential!WordBits = WordBits
  /\ Sequential!WordSize = WordSize /\ Sequential!Word = Word /\ Sequential!WORD = WORD
  /\ Sequential!Byte = Byte /\ Sequential!RegisterIndex = RegisterIndex
  /\ Sequential!Image = Image
BY DEF Sequential!ByteSize, ByteSize, Sequential!WordBits, WordBits, Sequential!WordSize,
   WordSize, Sequential!Word, Word, Sequential!WORD, WORD, Sequential!Byte, Byte,
   Sequential!RegisterIndex, RegisterIndex, Sequential!Image, Image

LEMMA SameAccesses ==
  ASSUME NEW image, NEW address, NEW width
  PROVE  /\ Sequential!read(image, address, width) = read(image, address, width)
         /\ Sequential!in_bounds(address, width) = in_bounds(address, width)
         /\ \A value : Sequential!write(image, address, width, value)
                         = write(image, address, width, value)
BY SameSizes DEF Sequential!read, read, Sequential!in_bounds, in_bounds, Sequential!write, write

LEMMA SameKinds ==
  ASSUME NEW op
  PROVE  /\ Sequential!is_load(op) <=> is_load(op)
         /\ Sequential!is_store(op) <=> is_store(op)
         /\ Sequential!writes_rd(op) <=> writes_rd(op)
         /\ Sequential!access_width(op) = LSQ!memory_width(op)
         /\ LSQ!memory_width(op) \in {1, 2, 4}
BY DEF Sequential!is_load, Sequential!LoadOps, is_load, LoadOps,
   Sequential!is_store, Sequential!StoreOps, is_store, StoreOps,
   Sequential!writes_rd, Sequential!RegisterOps, Sequential!ImmediateOps, Sequential!UpperOps,
   Sequential!JumpOps, writes_rd, RegisterOps, ImmediateOps, UpperOps, JumpOps,
   Sequential!access_width, LSQ!memory_width, Sequential!BYTE, Sequential!HALF, Sequential!WORD

LEMMA SameBits ==
  ASSUME NEW lhs, NEW rhs
  PROVE  /\ Sequential!get_bit(lhs, rhs) <=> FU!get_bit(lhs, rhs)
         /\ Sequential!bit_and(lhs, rhs) = FU!bit_and(lhs, rhs)
         /\ Sequential!bit_or(lhs, rhs) = FU!bit_or(lhs, rhs)
         /\ Sequential!bit_xor(lhs, rhs) = FU!bit_xor(lhs, rhs)
<1>1. Sequential!WordBits = FU!WordBits /\ Sequential!BitPosition = FU!BitPosition
  BY DEF Sequential!WordBits, FU!WordBits, Sequential!BitPosition, FU!BitPosition
<1>2. \A positions : Sequential!from_bits(positions) = FU!from_bits(positions)
  BY <1>1 DEF Sequential!from_bits, FU!from_bits
<1>3. \A x, y : Sequential!get_bit(x, y) <=> FU!get_bit(x, y)
  BY DEF Sequential!get_bit, FU!get_bit
<1>4. Sequential!bit_and(lhs, rhs) = FU!bit_and(lhs, rhs)
  BY <1>1, <1>2, <1>3 DEF Sequential!bit_and, FU!bit_and
<1>5. Sequential!bit_or(lhs, rhs) = FU!bit_or(lhs, rhs)
  BY <1>1, <1>2, <1>3 DEF Sequential!bit_or, FU!bit_or
<1>6. Sequential!bit_xor(lhs, rhs) = FU!bit_xor(lhs, rhs)
  BY <1>1, <1>2, <1>3 DEF Sequential!bit_xor, FU!bit_xor
<1> QED
  BY <1>3, <1>4, <1>5, <1>6

LEMMA SameArithmetic ==
  ASSUME NEW lhs, NEW rhs
  PROVE  /\ Sequential!add(lhs, rhs) = FU!add(lhs, rhs)
         /\ Sequential!sub(lhs, rhs) = FU!sub(lhs, rhs)
         /\ Sequential!shift_amount(rhs) = FU!shift_amount(rhs)
         /\ Sequential!shift_left(lhs, rhs) = FU!shift_left(lhs, rhs)
         /\ Sequential!shift_right(lhs, rhs) = FU!shift_right(lhs, rhs)
         /\ Sequential!arithmetic_shift_right(lhs, rhs) = FU!arithmetic_shift_right(lhs, rhs)
         /\ Sequential!signed_less_than(lhs, rhs) <=> FU!signed_less_than(lhs, rhs)
         /\ Sequential!signed_greater_equal(lhs, rhs) <=> FU!signed_greater_equal(lhs, rhs)
         /\ Sequential!clear_least_significant_bit(lhs) = FU!clear_least_significant_bit(lhs)
<1>1. Sequential!WordBits = FU!WordBits /\ Sequential!WordSize = FU!WordSize
  BY DEF Sequential!WordBits, FU!WordBits, Sequential!WordSize, FU!WordSize
<1>2. /\ Sequential!add(lhs, rhs) = FU!add(lhs, rhs)
      /\ Sequential!sub(lhs, rhs) = FU!sub(lhs, rhs)
      /\ Sequential!shift_amount(rhs) = FU!shift_amount(rhs)
      /\ Sequential!shift_left(lhs, rhs) = FU!shift_left(lhs, rhs)
      /\ Sequential!clear_least_significant_bit(lhs) = FU!clear_least_significant_bit(lhs)
  BY <1>1 DEF Sequential!add, FU!add, Sequential!sub, FU!sub, Sequential!shift_amount,
     FU!shift_amount, Sequential!shift_left, FU!shift_left,
     Sequential!clear_least_significant_bit, FU!clear_least_significant_bit
<1>3. Sequential!shift_right(lhs, rhs) = FU!shift_right(lhs, rhs)
  BY DEF Sequential!shift_right, FU!shift_right
<1>4. Sequential!arithmetic_shift_right(lhs, rhs) = FU!arithmetic_shift_right(lhs, rhs)
  BY <1>1, <1>3, SameBits DEF Sequential!arithmetic_shift_right, FU!arithmetic_shift_right
<1>5. \A x : Sequential!signed(x) = FU!signed(x)
  BY <1>1 DEF Sequential!signed, FU!signed
<1> QED
  BY <1>2, <1>3, <1>4, <1>5 DEF Sequential!signed_less_than, FU!signed_less_than,
     Sequential!signed_greater_equal, FU!signed_greater_equal

LEMMA StraightOn ==
  ASSUME NEW instruction, ~is_control(instruction.op)
  PROVE  Sequential!next_pc(instruction) = add(committed_pc, InstructionWidth)
<1>1. Sequential!next_instruction = add(committed_pc, InstructionWidth)
  BY SameArithmetic, SameSums DEF Sequential!next_instruction
<1>2. instruction.op \notin {"JAL", "JALR"} /\ instruction.op \notin BranchOps
  BY DEF is_control, is_branch, is_jump, JumpOps
<1>3. ~Sequential!branch_taken(instruction)
  BY <1>2 DEF Sequential!branch_taken, BranchOps
<1> QED
  BY <1>1, <1>2, <1>3 DEF Sequential!next_pc

(* What the functional unit is given when the operands are in the          *)
(* registers.                                                              *)
lhs_of(instruction) ==
  CASE lhs_source(instruction.op) = "Register" -> register[instruction.rs1]
    [] lhs_source(instruction.op) = "ProgramCounter" -> committed_pc
    [] OTHER -> 0
rhs_of(instruction) ==
  IF rhs_source(instruction.op) = "Register" THEN register[instruction.rs2]
  ELSE instruction.immediate

(* SLT and SLTU are left out: the interpreter compares with the immediate. *)
LEMMA SameResults ==
  ASSUME NEW instruction \in DecodedInstruction, FU!executable(instruction.op),
         instruction.op \notin {"SLT", "SLTU"}, NEW tag, NEW execute,
         execute = [op |-> instruction.op, operand1 |-> lhs_of(instruction),
                    operand2 |-> rhs_of(instruction), immediate |-> instruction.immediate,
                    pc |-> committed_pc, tag |-> tag]
  PROVE  /\ writes_rd(instruction.op) =>
              FU!result_of(execute) = Sequential!computed(instruction)
         /\ is_control(instruction.op) =>
              FU!next_pc_of(execute) = Sequential!next_pc(instruction)
         /\ ~is_control(instruction.op) =>
              Sequential!next_pc(instruction) = add(committed_pc, InstructionWidth)
<1> DEFINE op == instruction.op
<1>1. /\ execute.op = op /\ execute.operand1 = lhs_of(instruction)
      /\ execute.operand2 = rhs_of(instruction) /\ execute.pc = committed_pc
      /\ execute.immediate = instruction.immediate
  OBVIOUS
<1>2. op \in OP /\ instruction.immediate \in Word
  BY DEF DecodedInstruction
<1>3. FU!sequential_pc(committed_pc) = Sequential!next_instruction
  BY SameArithmetic DEF FU!sequential_pc, Sequential!next_instruction
<1>4. ASSUME writes_rd(op)
      PROVE  FU!result_of(execute) = Sequential!computed(instruction)
  <2>1. CASE op \in RegisterOps
    <3>1. lhs_of(instruction) = register[instruction.rs1]
          /\ rhs_of(instruction) = register[instruction.rs2]
      BY <2>1 DEF lhs_of, rhs_of, lhs_source, rhs_source, RegisterOps
    <3>2. Sequential!operand2(instruction) = register[instruction.rs2]
      BY <2>1 DEF Sequential!operand2, Sequential!RegisterOps, RegisterOps
    <3> QED
      BY <1>1, <2>1, <3>1, <3>2, SameArithmetic, SameBits
         DEF FU!result_of, FU!is_jump, FU!JumpOps, Sequential!computed, RegisterOps
  <2>2. CASE op \in ImmediateOps
    <3>1. lhs_of(instruction) = register[instruction.rs1]
          /\ rhs_of(instruction) = instruction.immediate
      BY <2>2 DEF lhs_of, rhs_of, lhs_source, rhs_source, ImmediateOps, RegisterOps, BranchOps
    <3>2. Sequential!operand2(instruction) = instruction.immediate
      BY <2>2 DEF Sequential!operand2, Sequential!RegisterOps, ImmediateOps
    <3> QED
      BY <1>1, <2>2, <3>1, <3>2, SameArithmetic, SameBits
         DEF FU!result_of, FU!is_jump, FU!JumpOps, Sequential!computed, ImmediateOps
  <2>3. CASE op = "LUI"
    <3>1. lhs_of(instruction) = 0 /\ rhs_of(instruction) = instruction.immediate
      BY <2>3 DEF lhs_of, rhs_of, lhs_source, rhs_source, RegisterOps, BranchOps
    <3>2. FU!add(0, instruction.immediate) = instruction.immediate
      <4>1. /\ instruction.immediate \in Nat /\ instruction.immediate < WordSize
            /\ WordSize \in Nat \ {0}
        BY <1>2, Sizes DEF Word
      <4>2. instruction.immediate % WordSize = instruction.immediate
        BY <4>1
      <4> QED
        BY <4>1, <4>2, Sizes DEF FU!add
    <3> QED
      BY <1>1, <2>3, <3>1, <3>2 DEF FU!result_of, FU!is_jump, FU!JumpOps, Sequential!computed
  <2>4. CASE op = "AUIPC"
    <3>1. lhs_of(instruction) = committed_pc /\ rhs_of(instruction) = instruction.immediate
      BY <2>4 DEF lhs_of, rhs_of, lhs_source, rhs_source, RegisterOps, BranchOps
    <3> QED
      BY <1>1, <2>4, <3>1, SameArithmetic DEF FU!result_of, FU!is_jump, FU!JumpOps, Sequential!computed
  <2>5. CASE op \in JumpOps
    BY <1>1, <1>3, <2>5 DEF FU!result_of, Sequential!computed, FU!is_jump, FU!JumpOps, JumpOps
  <2>6. ~is_load(op)
    BY DEF FU!executable, FU!is_load, FU!LoadOps, is_load, LoadOps
  <2> QED
    BY <1>4, <2>1, <2>2, <2>3, <2>4, <2>5, <2>6 DEF writes_rd, is_load, UpperOps
<1>5. ASSUME is_control(op)
      PROVE  FU!next_pc_of(execute) = Sequential!next_pc(instruction)
  <2>1. CASE op \in BranchOps
    <3>1. lhs_of(instruction) = register[instruction.rs1]
          /\ rhs_of(instruction) = register[instruction.rs2]
      BY <2>1 DEF lhs_of, rhs_of, lhs_source, rhs_source, RegisterOps, BranchOps
    <3>2. FU!taken(execute) <=> Sequential!branch_taken(instruction)
      BY <1>1, <2>1, <3>1, SameArithmetic
         DEF FU!taken, Sequential!branch_taken, BranchOps
    <3> QED
      BY <1>1, <1>3, <2>1, <3>2, SameArithmetic
         DEF FU!next_pc_of, Sequential!next_pc, BranchOps
  <2>2. CASE op = "JAL"
    <3>1. FU!taken(execute)
      BY <1>1, <2>2 DEF FU!taken, FU!is_jump, FU!JumpOps
    <3> QED
      BY <1>1, <2>2, <3>1, SameArithmetic
         DEF FU!next_pc_of, FU!taken, FU!is_jump, FU!JumpOps, Sequential!next_pc
  <2>3. CASE op = "JALR"
    <3>1. lhs_of(instruction) = register[instruction.rs1]
      BY <2>3 DEF lhs_of, lhs_source
    <3> DEFINE target == FU!add(lhs_of(instruction), instruction.immediate)
    <3>2. FU!next_pc_of(execute) = FU!clear_least_significant_bit(target)
      BY <1>1, <2>3 DEF FU!next_pc_of
    <3>3. Sequential!next_pc(instruction) =
            Sequential!clear_least_significant_bit(
              Sequential!add(register[instruction.rs1], instruction.immediate))
      BY <2>3 DEF Sequential!next_pc, Sequential!branch_taken
    <3>4. Sequential!add(register[instruction.rs1], instruction.immediate) = target
      BY <3>1, SameArithmetic
    <3>5. Sequential!clear_least_significant_bit(target) = FU!clear_least_significant_bit(target)
      BY SameArithmetic
    <3> QED
      BY <3>2, <3>3, <3>4, <3>5
  <2> QED
    BY <1>5, <2>1, <2>2, <2>3 DEF is_control, is_branch, is_jump, JumpOps
<1>6. ASSUME ~is_control(op)
      PROVE  Sequential!next_pc(instruction) = add(committed_pc, InstructionWidth)
  BY <1>6, StraightOn
<1> QED
  BY <1>4, <1>5, <1>6

(* As many bits as the bytes of an access have hold what the bytes do.     *)
Limit(width) == 2 ^ (width * ByteBits)

LEMMA Limits ==
  /\ Limit(1) = ByteSize /\ Limit(2) = ByteSize * ByteSize /\ Limit(4) = WordSize
  /\ \A width \in MemoryWidth : Limit(width) \in Nat \ {0} /\ Limit(width) <= WordSize
<1>1. ByteBits \in Nat \ {0} /\ WordBits = 4 * ByteBits
  BY SignalsAssumption DEF WordBits
<1>2. Limit(1) = ByteSize
  <2>1. 1 * ByteBits = ByteBits
    BY <1>1
  <2> QED
    BY <2>1 DEF Limit, ByteSize
<1>3. Limit(4) = WordSize
  BY DEF Limit, WordSize, WordBits
<1>4. Limit(2) \in Nat \ {0} /\ Limit(2) * Limit(2) = WordSize
  <2>1. 2 * ByteBits \in 0 .. WordBits /\ WordBits - 2 * ByteBits = 2 * ByteBits
    BY <1>1
  <2> QED
    BY <2>1, PowersAssumption DEF Limit
<1>5. Limit(2) = ByteSize * ByteSize
  <2> DEFINE half == Limit(2)
             square == ByteSize * ByteSize
  <2>1. half \in Nat \ {0} /\ square \in Nat \ {0}
    BY <1>4, Sizes
  <2>2. half * half = square * square
    BY <1>4, Sizes, BytePowers
  <2> HIDE DEF half, square
  <2>3. ~(half < square) /\ ~(square < half)
    BY <2>1, <2>2
  <2> QED
    BY <2>1, <2>3 DEF half, square
<1>6. /\ ByteSize \in Nat \ {0} /\ WordSize \in Nat \ {0}
      /\ ByteSize <= WordSize /\ ByteSize * ByteSize <= WordSize
  BY Sizes, BytePowers
<1> QED
  BY <1>2, <1>3, <1>4, <1>5, <1>6 DEF MemoryWidth, BYTE, HALF, WORD

LEMMA ReadingFits ==
  ASSUME NEW image \in Image, NEW address \in Word, NEW width \in MemoryWidth,
         MEM!in_bounds(address, width)
  PROVE  MEM!read(image, address, width) \in 0 .. Limit(width) - 1
<1> DEFINE byte(i) == IF i < width THEN image[address + i] * ByteSize ^ i ELSE 0
           highest == ByteSize - 1
<1>1. address \in Nat /\ MemorySize \in Nat /\ width \in {1, 2, 4}
      /\ address + width <= MemorySize
  BY Sizes, MemoryImageAssumption DEF MEM!in_bounds, MemoryWidth, BYTE, HALF, WORD
<1>2. ASSUME NEW i \in 0 .. 3, i < width
      PROVE  image[address + i] \in 0 .. highest
  <2>1. address + i \in 0 .. MemorySize - 1
    BY <1>1, <1>2
  <2> QED
    BY <2>1 DEF Image, Byte
<1>3. ASSUME NEW scale \in Nat, NEW value \in 0 .. highest
      PROVE  value * scale \in 0 .. highest * scale
  BY Sizes
<1>4. /\ ByteSize \in Nat \ {0} /\ ByteSize * ByteSize \in Nat
      /\ ByteSize * ByteSize * ByteSize \in Nat
      /\ highest \in Nat /\ highest * ByteSize \in Nat
      /\ highest * ByteSize * ByteSize \in Nat
      /\ highest * ByteSize * ByteSize * ByteSize \in Nat
  BY Sizes
<1>5. /\ byte(0) \in 0 .. highest
      /\ byte(1) \in 0 .. highest * ByteSize
      /\ byte(2) \in 0 .. highest * ByteSize * ByteSize
      /\ byte(3) \in 0 .. highest * ByteSize * ByteSize * ByteSize
      /\ width = 1 => byte(1) = 0
      /\ width # 4 => byte(2) = 0 /\ byte(3) = 0
  <2>1. byte(0) \in 0 .. highest
    BY <1>1, <1>2, <1>4, BytePowers
  <2>2. byte(1) \in 0 .. highest * ByteSize
    BY <1>1, <1>2, <1>3, <1>4, BytePowers
  <2>3. byte(2) \in 0 .. highest * ByteSize * ByteSize
    BY <1>1, <1>2, <1>3, <1>4, BytePowers
  <2>4. byte(3) \in 0 .. highest * ByteSize * ByteSize * ByteSize
    BY <1>1, <1>2, <1>3, <1>4, BytePowers
  <2> QED
    BY <1>1, <2>1, <2>2, <2>3, <2>4
<1>6. MEM!read(image, address, width) = byte(0) + byte(1) + byte(2) + byte(3)
  BY Sizes DEF MEM!read
<1> HIDE DEF byte
<1>7. CASE width = 1
  BY <1>5, <1>6, <1>7, Sizes, Limits
<1>8. CASE width = 2
  BY <1>5, <1>6, <1>8, Sizes, Limits
<1>9. CASE width = 4
  BY <1>5, <1>6, <1>9, Sizes, Limits, BytePowers
<1> QED
  BY <1>1, <1>7, <1>8, <1>9

(* A load takes from memory what the interpreter takes.                    *)
LEMMA SameLoads ==
  ASSUME NEW op, NEW image \in Image, NEW address \in Word,
         in_bounds(address, LSQ!memory_width(op))
  PROVE  LET raw == read(image, address, LSQ!memory_width(op))
         IN  LSQ!extend_load_result(op, raw) =
               IF op \in {"LB", "LH"}
               THEN Sequential!sign_extend(raw, LSQ!memory_width(op) * ByteBits) ELSE raw
<1> DEFINE width == LSQ!memory_width(op)
           bits == width * ByteBits
           limit == Limit(width)
           raw == read(image, address, width)
<1>1. width \in MemoryWidth /\ MEM!in_bounds(address, width)
  BY SameKinds, SameMemory DEF MemoryWidth, BYTE, HALF, WORD
<1>2. raw \in 0 .. limit - 1
  BY <1>1, ReadingFits, SameMemory
<1>3. limit \in Nat \ {0} /\ raw \in Nat /\ raw < limit
  BY <1>1, <1>2, Limits
<1>4. raw % limit = raw
  <2> HIDE DEF raw, limit
  <2> QED
    BY <1>3
<1>5. 2 ^ bits = limit
  BY DEF Limit
<1>6. LSQ!zero_extend(raw, bits) = raw /\ Sequential!zero_extend(raw, bits) = raw
  BY <1>4, <1>5 DEF LSQ!zero_extend, Sequential!zero_extend
<1>7. LSQ!sign_extend(raw, bits) = Sequential!sign_extend(raw, bits)
  BY <1>5, <1>6, SameSizes, Sizes
     DEF LSQ!sign_extend, Sequential!sign_extend, LSQ!get_bit, Sequential!get_bit
<1>8. LSQ!extend_load_result(op, raw) =
        IF op \in {"LB", "LH"} THEN LSQ!sign_extend(raw, bits) ELSE LSQ!zero_extend(raw, bits)
  BY DEF LSQ!extend_load_result
<1> HIDE DEF raw, bits
<1> QED
  BY <1>6, <1>7, <1>8 DEF raw, bits

----------------------------------------------------------------------------
(* The address of the oldest instruction, or of the next one to fetch.     *)
ring_pc == IF ROB!front = None THEN current_pc ELSE ROB!front.pc

HeadIsFront ==
  /\ rob_head \in RobIndex /\ rob_count \in Nat
  /\ \A slot \in RobIndex : age(slot) \in Nat /\ (age(slot) = 0 <=> slot = rob_head)
  /\ ROB!front # None <=> rob_cur[rob_head] # None
  /\ ROB!front # None => ROB!front = rob_cur[rob_head]
  /\ commit # None <=> rob_cur[rob_head] # None /\ rob_cur[rob_head].ready
  /\ commit # None => commit = rob_cur[rob_head] /\ commit = ROB!front
  /\ rob_count = 0 <=> rob_cur[rob_head] = None
  /\ ROB!empty <=> ROB!front = None

LEMMA HeadOfRing == TypeOK /\ RobContiguous => HeadIsFront
<1> SUFFICES ASSUME TypeOK, RobContiguous PROVE HeadIsFront
  OBVIOUS
<1>1. rob_count \in Nat
  BY DEF TypeOK, RobTypeOK
<1> QED
  BY <1>1, HeadOfTheRing, Ages, Retiring DEF ROB!empty, HeadIsFront

LEMMA PathFollows ==
  ASSUME FlowInv, PathIsPredicted, Cycle, CodeInFlightStays
  PROVE  ring_pc' = IF flush THEN redirect_pc
                    ELSE IF commit # None THEN commit.predicted_next_pc ELSE ring_pc
<1>1. /\ RingInv /\ TypeOK /\ RobContiguous /\ TypeOK' /\ RobContiguous'
      /\ retired \in {0, 1}
  BY FlowFacts, CycleTypes, CycleOfTheRing, Retiring DEF RingInv
<1>2. /\ rob_head' \in RobIndex /\ rob_count' \in Nat
      /\ \A slot \in RobIndex : age(slot)' = 0 <=> slot = rob_head'
      /\ ROB!front' # None <=> rob_cur'[rob_head'] # None
      /\ ROB!front' # None => ROB!front' = rob_cur'[rob_head']
      /\ rob_count' = 0 <=> rob_cur'[rob_head'] = None
  <2>1. HeadIsFront'
    BY <1>1, HeadOfRing, PTL
  <2> QED
    BY <2>1 DEF HeadIsFront
<1>3. /\ current_pc' = IF flush THEN redirect_pc
                       ELSE IF issue_outputs.rob # None THEN issue_outputs.rob.predicted_next_pc
                       ELSE current_pc
      /\ flush => rob_count' = 0
      /\ ~flush => rob_count' = rob_count - retired
                                + (IF issue_outputs.rob = None THEN 0 ELSE 1)
  BY <1>1, CycleParts, CycleOfTheRing DEF next_pc
<1>4. ring_pc' = IF ROB!front' = None THEN current_pc' ELSE ROB!front'.pc
  BY DEF ring_pc
<1> PICK slot \in RobIndex : slot = rob_head'
  BY <1>2
<1>5. CASE flush
  BY <1>2, <1>3, <1>4, <1>5
<1>6. ASSUME ~flush, stays(slot)
      PROVE  /\ rob_cur'[slot].pc = rob_cur[slot].pc /\ rob_cur[slot] # None
             /\ age(slot) = retired
  <2>1. age(slot)' = 0 /\ age(slot)' = age(slot) - retired /\ age(slot) \in Nat
    BY <1>1, <1>2, <1>6, InstructionStays, Ages
  <2> QED
    BY <1>1, <1>6, <2>1, InstructionStays DEF SameInstruction
<1>7. ASSUME ~flush, joins(slot)
      PROVE  rob_cur'[slot].pc = current_pc /\ rob_count = retired
  <2>1. age(slot)' = 0 /\ age(slot)' = rob_count - retired
    BY <1>1, <1>2, <1>7, InstructionStarts
  <2> QED
    BY <1>1, <1>7, <2>1, InstructionStarts, HeadOfRing DEF HeadIsFront
<1>8. /\ rob_head \in RobIndex /\ age(rob_head) = 0 /\ rob_count \in Nat
      /\ ROB!front # None <=> rob_cur[rob_head] # None
      /\ ROB!front # None => ROB!front = rob_cur[rob_head]
      /\ commit # None => commit = rob_cur[rob_head] /\ rob_cur[rob_head] # None
      /\ rob_count = 0 <=> rob_cur[rob_head] = None
  BY <1>1, HeadOfRing DEF HeadIsFront
<1>9. CASE ~flush /\ commit = None
  <2>1. retired = 0
    BY <1>9 DEF retired
  <2>2. CASE rob_cur[rob_head] # None
    <3>1. stays(rob_head)
      BY <1>9, <2>2 DEF stays
    <3>2. age(rob_head) = 0 /\ rob_cur'[rob_head] # None
      BY <1>1, <1>8, <3>1, InstructionStays
    <3> PICK head \in RobIndex : head = rob_head
      BY <1>8
    <3>3. age(head)' = age(head) - retired
      BY <1>1, <3>1, InstructionStays
    <3>4. head = rob_head'
      BY <1>2, <1>8, <2>1, <3>3
    <3> QED
      BY <1>2, <1>4, <1>6, <1>8, <1>9, <2>2, <3>1, <3>2, <3>4 DEF ring_pc
  <2>3. CASE rob_cur[rob_head] = None
    <3>1. ~stays(slot)
      BY <1>1, <1>8, <2>3, Ages DEF stays, RobContiguous
    <3>2. CASE joins(slot)
      <4>1. rob_cur'[slot] # None
        BY <1>1, <3>2, CycleOfTheRing
      <4> QED
        BY <1>2, <1>4, <1>7, <1>8, <1>9, <2>3, <3>2, <4>1 DEF ring_pc
    <3>3. CASE ~joins(slot)
      <4>1. rob_cur'[slot] = None
        BY <1>1, <3>1, <3>3, CycleOfTheRing
      <4>2. issue_outputs.rob = None
        BY <1>2, <1>3, <1>8, <1>9, <2>1, <2>3, <4>1
      <4> QED
        BY <1>2, <1>3, <1>4, <1>8, <1>9, <2>3, <4>1, <4>2 DEF ring_pc
    <3> QED
      BY <3>2, <3>3
  <2> QED
    BY <2>2, <2>3
<1>10. CASE ~flush /\ commit # None
  <2>1. retired = 1
    BY <1>10 DEF retired
  <2>2. CASE stays(slot)
    <3>1. rob_cur'[slot] # None /\ age(slot) = age(rob_head) + 1
      BY <1>1, <1>6, <1>8, <1>10, <2>1, <2>2, InstructionStays
    <3>2. rob_cur[slot].pc = rob_cur[rob_head].predicted_next_pc
      BY <1>6, <1>8, <1>10, <2>2, <3>1 DEF PathIsPredicted
    <3> QED
      BY <1>2, <1>4, <1>6, <1>8, <1>10, <2>2, <3>1, <3>2
  <2>3. rob_count = 1 => current_pc = rob_cur[rob_head].predicted_next_pc
    BY <1>8, <1>10 DEF PathIsPredicted
  <2>4. CASE joins(slot)
    <3>1. rob_cur'[slot] # None
      BY <1>1, <2>4, CycleOfTheRing
    <3> QED
      BY <1>2, <1>4, <1>7, <1>8, <1>10, <2>1, <2>3, <2>4, <3>1
  <2>5. CASE ~stays(slot) /\ ~joins(slot)
    <3>1. rob_cur'[slot] = None
      BY <1>1, <2>5, CycleOfTheRing
    <3>2. rob_count = 1 /\ issue_outputs.rob = None
      BY <1>2, <1>3, <1>8, <1>10, <2>1, <3>1
    <3> QED
      BY <1>2, <1>3, <1>4, <1>8, <1>10, <2>3, <3>1, <3>2
  <2> QED
    BY <2>2, <2>4, <2>5
<1> QED
  BY <1>5, <1>9, <1>10

----------------------------------------------------------------------------
(* The store at the head of the ring, from its request to its commit.      *)

StoreIsWritten ==
  StoreIsServed /\ in_bounds(LSQ!front.address, LSQ!memory_width(LSQ!front.op))

(* A store of the queue that has asked memory is the head of the ring.     *)
LEMMA AskingStore ==
  ASSUME FlowInv, asked, is_store(LSQ!front.op)
  PROVE  /\ lsq_head \in LSQ!Slot /\ lsq_cur[lsq_head] # None /\ LSQ!front = lsq_cur[lsq_head]
         /\ LSQ!front \in LSQ!LSQEntry
         /\ ROB!front # None /\ ROB!front = rob_cur[rob_head] /\ rob_head \in RobIndex
         /\ LSQ!front.destination = rob_cur[rob_head].tag
         /\ LSQ!front.destination.index = rob_head /\ LSQ!front.destination \in RobTag
         /\ Unfinished(LSQ!front.destination)
         /\ rob_cur[rob_head].op = LSQ!front.op /\ ~rob_cur[rob_head].ready
         /\ commit = None /\ ~flush
<1>1. /\ RingInv /\ TypeOK /\ RobContiguous /\ LsqContiguous /\ QueueBacked
      /\ RequestsAreTimely
  BY FlowFacts DEF FlowInv, MemoryInv, RingInv
<1>2. LSQ!front # None /\ ROB!front # None /\ ROB!front.tag = LSQ!front.destination
  BY <1>1 DEF asked, RequestsAreTimely
<1>3. /\ lsq_head \in LSQ!Slot /\ lsq_cur[lsq_head] # None /\ LSQ!front = lsq_cur[lsq_head]
      /\ LSQ!front \in LSQ!LSQEntry
  BY <1>1, <1>2, HeadOfTheQueue
<1>4. HeadIsFront
  BY <1>1, HeadOfRing
<1>5. ROB!front = rob_cur[rob_head] /\ rob_head \in RobIndex /\ rob_cur[rob_head] # None
  BY <1>2, <1>4 DEF HeadIsFront
<1>6. LSQ!front.destination = rob_cur[rob_head].tag /\ LSQ!front.destination.index = rob_head
  BY <1>1, <1>2, <1>5, TagTellsSlot
<1>7. /\ Unfinished(LSQ!front.destination)
      /\ LSQ!front.op = operation_of(LSQ!front.destination)
  BY <1>1, <1>3 DEF QueueBacked
<1>8. rob_cur[rob_head].op = LSQ!front.op /\ ~rob_cur[rob_head].ready
  BY <1>6, <1>7 DEF Unfinished, operation_of
<1>9. commit = None /\ ~flush
  BY <1>1, <1>4, <1>8, Retiring DEF HeadIsFront
<1>10. LSQ!front.destination \in RobTag
  BY <1>3, SameRecords
<1> QED
  BY <1>2, <1>3, <1>5, <1>6, <1>7, <1>8, <1>9, <1>10

(* Memory's answer to a store.                                             *)
LEMMA StoreIsAnswered ==
  ASSUME FlowInv, Cycle
  PROVE  /\ response' # None /\ response'.is_store => StoreIsServed
         /\ StoreIsServed =>
              /\ response' # None /\ response'.is_store
              /\ response'.tag = LSQ!front.destination
              /\ response'.success <=> StoreIsWritten
<1> DEFINE request == transaction.request
<1>1. /\ TypeOK /\ TransactionIsKnown /\ RequestsAreTimely
  BY FlowFacts DEF FlowInv, MemoryInv
<1>2. /\ response' # None <=> transaction # None /\ transaction.remaining_cycles = 1
      /\ response' # None => /\ response'.tag = request.tag
                             /\ response'.is_store = request.is_store
  BY <1>1, CycleOfMemory
<1>3. transaction # None /\ request.is_store =>
        asked /\ request = LSQ!make_memory_request(LSQ!front)
  BY <1>1 DEF TransactionIsKnown
<1>4. asked /\ request = LSQ!make_memory_request(LSQ!front) =>
        /\ request.is_store <=> is_store(LSQ!front.op)
        /\ request.address = LSQ!front.address /\ request.tag = LSQ!front.destination
        /\ request.width = LSQ!memory_width(LSQ!front.op)
  BY SameOperations DEF LSQ!make_memory_request
<1>5. response' # None => (response'.success <=> in_bounds(request.address, request.width))
  <2> SUFFICES ASSUME response' # None
               PROVE  response'.success <=> in_bounds(request.address, request.width)
    OBVIOUS
  <2>1. MEM!apply(memory_request)
    BY CycleParts
  <2>2. response' = MEM!response_to(request)
    BY <1>2, <2>1 DEF MEM!apply, MEM!completes
  <2>3. MEM!in_bounds(request.address, request.width) = in_bounds(request.address, request.width)
    BY SameMemory
  <2> QED
    BY <2>2, <2>3 DEF MEM!response_to
<1> HIDE DEF request
<1> QED
  BY <1>1, <1>2, <1>3, <1>4, <1>5 DEF StoreIsServed, StoreIsWritten, RequestsAreTimely, request

(* A store that is written and not ready is answered now.                  *)
LEMMA WrittenIsAnswered ==
  ASSUME FlowInv, head_store_written, ~ROB!front.ready
  PROVE  /\ removed /\ asked /\ is_store(LSQ!front.op) /\ transaction = None
         /\ store_completion = LSQ!front.destination
<1>1. TypeOK /\ LsqContiguous /\ ResponseIsKnown
  BY FlowFacts
<1>2. /\ response # None /\ response.is_store /\ response.success
      /\ ROB!front # None /\ ROB!front.tag = response.tag
  BY DEF head_store_written
<1>3. asked /\ LSQ!matching_response(response) /\ transaction = None
  BY <1>1, <1>2 DEF ResponseIsKnown
<1>4. is_store(LSQ!front.op)
  BY <1>2, <1>3, SameOperations DEF LSQ!matching_response
<1>5. ~flush
  BY <1>3, <1>4, AskingStore
<1>6. removed /\ store_completion = LSQ!front.destination
  BY <1>2, <1>3, <1>4, <1>5, SameOperations
     DEF removed, LSQ!remove_head, store_completion, LSQ!store_completion
<1> QED
  BY <1>3, <1>4, <1>6

(* Only the head's store becomes ready, and only once it is written.       *)
LEMMA ReadyStores ==
  ASSUME FlowInv, Cycle, NEW slot \in RobIndex, stays(slot), is_store(rob_cur[slot].op),
         ~rob_cur[slot].ready, rob_cur'[slot].ready
  PROVE  slot = rob_head /\ head_store_written
<1>1. /\ RingInv /\ TypeOK /\ LsqContiguous /\ QueueBacked /\ ResultsBacked
      /\ ResponseIsKnown /\ ~flush /\ rob_cur[slot] # None
  BY FlowFacts DEF stays
<1> PICK tag : tag = rob_cur[slot].tag
  OBVIOUS
<1>2. tag \in RobTag /\ tag.index = slot /\ Unfinished(tag)
  <2>1. tag \in RobTag /\ tag.index = slot
    <3>1. rob_cur[slot] \in ROB!ROBEntry
      BY <1>1 DEF TypeOK, RobTypeOK, Maybe
    <3> QED
      BY <1>1, <3>1, TagTellsSlot, SameRecords
  <2> QED
    BY <1>1, <2>1, NoneAssumption DEF Unfinished, ROB!matching_entry
<1>3. completed(tag)
  <2>1. Unfinished(tag)' <=> ~completed(tag)
    BY <1>1, <1>2, UnfinishedStays
  <2>2. ~Unfinished(tag)'
    BY <1>2 DEF Unfinished
  <2> QED
    BY <2>1, <2>2
<1>4. is_store(operation_of(tag))
  BY <1>2 DEF operation_of
<1>5. removed /\ lsq_cur[lsq_head] # None /\ LSQ!front = lsq_cur[lsq_head]
      /\ lsq_cur[lsq_head].destination = tag
  BY <1>1, <1>3, <1>4, Completions, Kinds
<1>6. asked
  BY <1>1, <1>5, AnswersWereAsked
<1>7. is_store(LSQ!front.op)
  BY <1>1, <1>4, <1>5, HeadOfTheQueue DEF QueueBacked
<1>8. slot = rob_head /\ ROB!front # None /\ ROB!front = rob_cur[rob_head]
  BY <1>2, <1>5, <1>6, <1>7, AskingStore
<1>9. /\ response # None /\ response.success /\ response.tag = tag /\ response.is_store
  BY <1>5, <1>7, SameOperations DEF removed, LSQ!remove_head, LSQ!matching_response
<1> QED
  BY <1>2, <1>8, <1>9 DEF head_store_written

(* The head store, a cycle later.  Its commit ends it.                     *)
LEMMA WrittenFollows ==
  ASSUME FlowInv, ResultsAreRight, Cycle
  PROVE  head_store_written' <=> commit = None /\ (head_store_written \/ StoreIsWritten)
<1>1. /\ RingInv /\ TypeOK /\ RobContiguous /\ TypeOK' /\ RobContiguous' /\ LsqContiguous
      /\ ResponseIsKnown
  BY FlowFacts, CycleTypes, CycleOfTheRing DEF RingInv
<1>2. HeadIsFront /\ HeadIsFront'
  BY <1>1, HeadOfRing, PTL
<1>3. /\ rob_head' \in RobIndex
      /\ \A slot \in RobIndex : age(slot)' = 0 <=> slot = rob_head'
      /\ ROB!front' # None <=> rob_cur'[rob_head'] # None
      /\ ROB!front' # None => ROB!front' = rob_cur'[rob_head']
  BY <1>2 DEF HeadIsFront
<1>4. /\ rob_head \in RobIndex /\ age(rob_head) = 0
      /\ ROB!front # None <=> rob_cur[rob_head] # None
      /\ ROB!front # None => ROB!front = rob_cur[rob_head]
      /\ commit # None <=> rob_cur[rob_head] # None /\ rob_cur[rob_head].ready
  BY <1>2 DEF HeadIsFront
<1>5. head_store_written' <=>
        /\ ROB!front' # None /\ is_store(ROB!front'.op)
        /\ \/ ROB!front'.ready
           \/ /\ response' # None /\ response'.is_store /\ response'.success
              /\ response'.tag = ROB!front'.tag
  BY DEF head_store_written
<1>6. ASSUME commit = None, head_store_written \/ StoreIsWritten
      PROVE  head_store_written'
  <2>1. ROB!front # None /\ is_store(ROB!front.op) /\ ~ROB!front.ready
    <3>1. StoreIsWritten => ROB!front # None /\ is_store(ROB!front.op)
      BY AskingStore DEF StoreIsWritten, StoreIsServed
    <3> QED
      BY <1>4, <1>6, <3>1 DEF head_store_written
  <2>2. ~flush /\ stays(rob_head) /\ retired = 0
    BY <1>1, <1>4, <1>6, <2>1, Retiring DEF stays, retired
  <2> PICK head \in RobIndex : head = rob_head
    BY <1>4
  <2>3. /\ rob_cur'[head] # None /\ SameInstruction(rob_cur'[head], rob_cur[head])
        /\ age(head)' = age(head) - retired
    BY <1>1, <2>2, CycleOfTheRing
  <2>4. head = rob_head'
    BY <1>3, <1>4, <2>2, <2>3
  <2>5. /\ ROB!front' # None /\ ROB!front' = rob_cur'[head]
        /\ ROB!front'.op = ROB!front.op /\ ROB!front'.tag = ROB!front.tag
    BY <1>3, <1>4, <2>1, <2>3, <2>4 DEF SameInstruction
  <2>6. CASE head_store_written
    <3>1. /\ asked /\ is_store(LSQ!front.op) /\ store_completion = LSQ!front.destination
      BY <2>1, <2>6, WrittenIsAnswered
    <3> PICK tag : tag = LSQ!front.destination
      OBVIOUS
    <3>2. Unfinished(tag) /\ tag \in RobTag /\ tag = rob_cur[head].tag /\ tag.index = head
      BY <3>1, AskingStore
    <3>3. completed(tag)
      BY <1>4, <2>1, <3>1, <3>2, NoneAssumption DEF completed, operation_of
    <3>4. ~Unfinished(tag)'
      BY <1>1, <2>2, <3>2, <3>3, UnfinishedStays
    <3>5. rob_cur'[head].tag = tag /\ tag # None
      BY <2>3, <3>2, NoneAssumption DEF SameInstruction
    <3>6. rob_cur'[head].ready
      BY <2>3, <3>2, <3>4, <3>5 DEF Unfinished, ROB!matching_entry
    <3> QED
      BY <1>5, <2>1, <2>5, <3>6
  <2>7. CASE StoreIsWritten
    <3>1. StoreIsServed /\ LSQ!front.destination = ROB!front.tag
      BY <2>7 DEF StoreIsWritten, StoreIsServed
    <3>2. /\ response' # None /\ response'.is_store /\ response'.success
          /\ response'.tag = LSQ!front.destination
      BY <2>7, <3>1, StoreIsAnswered
    <3> QED
      BY <1>5, <2>1, <2>5, <3>1, <3>2
  <2> QED
    BY <1>6, <2>6, <2>7
<1>7. ASSUME head_store_written'
      PROVE  commit = None /\ (head_store_written \/ StoreIsWritten)
  <2> PICK slot \in RobIndex : slot = rob_head'
    BY <1>3
  <2>1. /\ rob_cur'[slot] # None /\ is_store(rob_cur'[slot].op)
        /\ \/ rob_cur'[slot].ready
           \/ /\ response' # None /\ response'.is_store /\ response'.success
              /\ response'.tag = rob_cur'[slot].tag
    BY <1>3, <1>5, <1>7
  <2>2. stays(slot) \/ joins(slot)
    BY <1>1, <2>1, CycleOfTheRing
  <2>3. CASE rob_cur'[slot].ready
    <3>1. ~joins(slot)
      <4> SUFFICES ASSUME joins(slot) PROVE FALSE
        OBVIOUS
      <4>1. /\ rob_cur'[slot] = issue_outputs.rob /\ issue_outputs.rob # None
            /\ issue_outputs.rob = Issue!rob_entry(packet, ROB!next_tag)
        BY <1>1, CycleOfTheRing, IssuedEntry DEF joins
      <4>2. rob_cur'[slot].op = "HALT"
        BY <2>3, <4>1, EntryOf
      <4> QED
        BY <2>1, <4>2 DEF is_store, StoreOps
    <3>2. /\ stays(slot) /\ SameInstruction(rob_cur'[slot], rob_cur[slot])
          /\ rob_cur[slot] # None /\ is_store(rob_cur[slot].op)
      BY <1>1, <2>1, <2>2, <3>1, CycleOfTheRing DEF stays, SameInstruction
    <3>3. CASE rob_cur[slot].ready
      <4>1. slot = rob_head
        BY <3>2, <3>3 DEF ResultsAreRight
      <4> QED
        BY <1>4, <3>2, <3>3, <4>1 DEF stays
    <3>4. CASE ~rob_cur[slot].ready
      <4>1. slot = rob_head /\ head_store_written
        BY <2>3, <3>2, <3>4, ReadyStores
      <4> QED
        BY <1>4, <3>4, <4>1
    <3> QED
      BY <3>3, <3>4
  <2>4. CASE /\ response' # None /\ response'.is_store /\ response'.success
             /\ response'.tag = rob_cur'[slot].tag
    <3>1. StoreIsServed /\ StoreIsWritten
      BY <2>4, StoreIsAnswered
    <3>2. commit = None
      BY <3>1, AskingStore DEF StoreIsServed
    <3> QED
      BY <3>1, <3>2
  <2> QED
    BY <2>1, <2>3, <2>4
<1> QED
  BY <1>6, <1>7

----------------------------------------------------------------------------
(* The interpreter's variables through a cycle.                            *)

CommittedPcIs ==
  status # "Halted" =>
    committed_pc = IF head_store_written THEN add(ring_pc, InstructionWidth) ELSE ring_pc

LEMMA CommittedPc == TypeOK /\ RobContiguous => CommittedPcIs
<1> SUFFICES ASSUME TypeOK, RobContiguous PROVE CommittedPcIs
  OBVIOUS
<1>1. ROB!empty <=> ROB!front = None
  BY HeadOfRing DEF HeadIsFront
<1>2. head_store_written => ROB!front # None
  BY DEF head_store_written
<1> QED
  BY <1>1, <1>2 DEF CommittedPcIs, committed_pc, ring_pc, add

(* Only a step of memory itself writes memory, and none does while the     *)
(* head commits or its store is written.                                   *)
LEMMA MemoryStays ==
  ASSUME FlowInv, Cycle
  PROVE  /\ commit # None \/ head_store_written => ~StoreIsServed
         /\ ~StoreIsWritten => memory' = memory
         /\ StoreIsWritten =>
              memory' = write(memory, LSQ!front.address, LSQ!memory_width(LSQ!front.op),
                              LSQ!front.store_data.value)
<1>1. /\ ~StoreIsWritten => memory' = memory
      /\ StoreIsWritten =>
              memory' = write(memory, LSQ!front.address, LSQ!memory_width(LSQ!front.op),
                              LSQ!front.store_data.value)
  BY MemoryFollows DEF StoreIsWritten
<1>2. commit # None => ~StoreIsServed
  BY AskingStore DEF StoreIsServed
<1>3. head_store_written => ~StoreIsServed
  <2>1. CASE head_store_written /\ ROB!front.ready
    <3>1. ROB!front # None
      BY <2>1 DEF head_store_written
    <3> QED
      BY <1>2, <2>1, <3>1 DEF commit, ROB!commit
  <2>2. CASE head_store_written /\ ~ROB!front.ready
    BY <2>2, WrittenIsAnswered DEF StoreIsServed
  <2> QED
    BY <2>1, <2>2
<1> QED
  BY <1>1, <1>2, <1>3

LEMMA RegistersFollow ==
  ASSUME FlowInv, Cycle
  PROVE  register' = IF commit # None /\ commit.writes_rd
                     THEN [register EXCEPT ![commit.rd] = commit.value] ELSE register
<1>1. /\ RingInv /\ TypeOK /\ TypeOK'
  BY FlowFacts, CycleTypes
<1>2. register \in [RegisterIndex -> Word] /\ register' \in [RegisterIndex -> Word]
  BY <1>1 DEF TypeOK
<1>3. \A r \in RegisterIndex :
        register'[r] = IF commit # None /\ commit.writes_rd /\ commit.rd = r
                       THEN commit.value ELSE register[r]
  BY <1>1, CycleOfTheRegisters
<1> QED
  BY <1>2, <1>3

(* No tag is missing when one is needed, and what is wrong with a word is  *)
(* only told when nothing older is in flight.                              *)
LEMMA StatusFollows ==
  ASSUME FlowInv, Cycle
  PROVE  /\ status = "Running"
         /\ halted => status' = "Halted"
         /\ ~halted /\ ROB!front # None => status' \in {"Running", "MemoryOutOfBound"}
         /\ ~halted /\ ROB!front = None =>
              \/ status' = "Running"
              \/ /\ status' = "InvalidInstruction"
                 /\ fetched # None /\ Decode[fetched].op = "INVALID"
              \/ status' = "FetchOutOfBound" /\ fetched = None
<1>1. TypeOK /\ RobContiguous /\ LsqContiguous /\ QueueBacked
  BY FlowFacts DEF RingInv
<1>2. status = "Running" /\ status' = next_status(issue_outputs)
  BY CycleParts
<1>3. ROB!empty <=> ROB!front = None
  BY <1>1, HeadOfRing DEF HeadIsFront
<1> DEFINE answer == Issue!issue_status(packet, ROB!next_tag, ~ROB!full, RS!available, ~LSQ!full)
<1>4. issue_outputs.status = answer
  BY DEF issue_outputs, issued, no_issue
<1>5. answer # "InvalidAllocation"
  <2>1. packet # None => ~ROB!full
    BY DEF packet, fetch_attempted
  <2>2. packet # None => ROB!next_tag # None
    BY <1>1, <2>1, Tag
  <2> QED
    BY <2>2 DEF Issue!issue_status
<1>6. answer = "InvalidInstruction" => fetched # None /\ Decode[fetched].op = "INVALID"
  <2>1. answer = "InvalidInstruction" => packet # None /\ packet.decoded.op = "INVALID"
    BY DEF Issue!issue_status
  <2> QED
    BY <2>1 DEF packet
<1>7. fetch_error => fetched = None
  BY DEF fetch_error
<1>8. ROB!front = None => ~memory_error
  <2> SUFFICES ASSUME ROB!front = None, memory_error PROVE FALSE
    OBVIOUS
  <2>1. LSQ!front # None
    BY DEF memory_error, LSQ!memory_error, LSQ!matching_response
  <2>2. lsq_head \in LSQ!Slot /\ lsq_cur[lsq_head] # None /\ LSQ!front \in LSQ!LSQEntry
        /\ LSQ!front = lsq_cur[lsq_head]
    BY <1>1, <2>1, HeadOfTheQueue
  <2>3. Unfinished(LSQ!front.destination) /\ LSQ!front.destination \in RobTag
    BY <1>1, <2>2, SameRecords DEF QueueBacked
  <2> PICK slot \in RobIndex : slot = LSQ!front.destination.index
    BY <2>3 DEF RobTag
  <2>4. rob_cur[slot] # None /\ age(slot) \in Nat
    BY <1>1, <2>3, Ages DEF Unfinished, ROB!matching_entry
  <2>5. age(slot) < rob_count /\ rob_count \in Nat
    BY <1>1, <2>4 DEF RobContiguous, TypeOK, RobTypeOK
  <2>6. rob_count = 0
    BY <1>3 DEF ROB!empty
  <2> QED
    BY <2>4, <2>5, <2>6
<1> HIDE DEF answer
<1> QED
  BY <1>2, <1>3, <1>4, <1>5, <1>6, <1>7, <1>8 DEF next_status

(* A HALT was followed by nothing: taking the width of an instruction off  *)
(* the fetch address gives its own address.                                *)
LEMMA BackAgain ==
  ASSUME NEW address \in Word
  PROVE  (add(address, InstructionWidth) + WordSize - InstructionWidth) % WordSize = address
<1>1. /\ address \in Nat /\ address < WordSize /\ WordSize \in Nat \ {0}
      /\ InstructionWidth \in Nat
  BY Sizes, CPUAssumption DEF Word
<1> DEFINE sum == address + InstructionWidth
           rounds == sum \div WordSize
           rest == sum % WordSize
           back == rest + WordSize - InstructionWidth
<1>2. sum = WordSize * rounds + rest /\ rounds \in Nat /\ rest \in Nat
  <2> HIDE DEF sum
  <2>1. sum \in Nat
    BY <1>1 DEF sum
  <2> QED
    BY <1>1, <2>1
<1> HIDE DEF rounds, rest
<1>3. WordSize * rounds \in Int /\ back \in Int
      /\ back = address + WordSize - WordSize * rounds
  BY <1>1, <1>2
<1> DEFINE turns == back \div WordSize
           result == back % WordSize
<1> HIDE DEF back
<1>4. back = WordSize * turns + result /\ turns \in Int /\ result \in 0 .. WordSize - 1
  <2>1. ASSUME NEW value \in Int, NEW divisor \in Nat \ {0}
        PROVE  /\ value = divisor * (value \div divisor) + (value % divisor)
               /\ value \div divisor \in Int /\ value % divisor \in 0 .. divisor - 1
    <3>1. value = divisor * (value \div divisor) + (value % divisor)
      OBVIOUS
    <3>2. value \div divisor \in Int
      OBVIOUS
    <3>3. value % divisor \in 0 .. divisor - 1
      OBVIOUS
    <3> QED
      BY <3>1, <3>2, <3>3
  <2> QED
    BY <1>1, <1>3, <2>1
<1> HIDE DEF turns, result
<1> DEFINE off == turns + rounds - 1
<1>5. off \in Int /\ WordSize * off = WordSize * turns + WordSize * rounds - WordSize
  BY <1>1, <1>2, <1>4
<1>6. address - result = WordSize * off
  BY <1>1, <1>3, <1>4, <1>5
<1> HIDE DEF off
<1>7. off < 1
  <2>1. off >= 1 => WordSize * off >= WordSize
    BY <1>1, <1>5
  <2> QED
    BY <1>1, <1>4, <1>5, <1>6, <2>1
<1>8. off > -1
  <2>1. off <= -1 => WordSize * off <= -WordSize
    BY <1>1, <1>5
  <2> QED
    BY <1>1, <1>4, <1>5, <1>6, <2>1
<1>9. off = 0
  BY <1>5, <1>7, <1>8
<1>10. result = address
  BY <1>1, <1>4, <1>6, <1>9
<1> QED
  BY <1>10 DEF result, back, rest, add

----------------------------------------------------------------------------
(* A commit is a step of the interpreter.                                  *)

(* At the head of the ring the registers are what the interpreter has.     *)
LEMMA HeadReadsRegisters ==
  ASSUME FlowInv, NEW r, NEW value, Provides(0, r, value)
  PROVE  value = register[r]
<1>1. TypeOK
  BY FlowFacts
<1>2. older_writers(0, r) = {}
  BY <1>1, Ages DEF older_writers, writers
<1> QED
  BY <1>2 DEF Provides, is_source

LEMMA Committing ==
  ASSUME FlowInv, RightInv, commit # None
  PROVE  LET instruction == code(rob_head)
         IN  /\ rob_head \in RobIndex /\ age(rob_head) = 0
             /\ commit = rob_cur[rob_head] /\ commit.ready /\ commit \in ROB!ROBEntry
             /\ ring_pc = commit.pc /\ ROB!front = commit
             /\ instruction \in DecodedInstruction
             /\ Sequential!read(memory, commit.pc, Sequential!WORD) # None
             /\ Decode[Sequential!read(memory, commit.pc, Sequential!WORD)] = instruction
             /\ commit.op = instruction.op /\ commit.rd = instruction.rd
             /\ commit.op # "INVALID"
             /\ commit.writes_rd <=> writes_rd(commit.op) /\ commit.rd # 0
             /\ ~is_control(commit.op) =>
                  commit.predicted_next_pc = add(commit.pc, InstructionWidth)
             /\ is_store(commit.op) <=> head_store_written
<1>1. TypeOK /\ RobContiguous /\ FlightIsSound /\ CodeIsDecoded /\ PathIsPredicted
  BY FlowFacts DEF RingInv, RightInv
<1>2. /\ rob_head \in RobIndex /\ age(rob_head) = 0 /\ commit = rob_cur[rob_head]
      /\ commit.ready /\ rob_cur[rob_head] # None /\ commit = ROB!front
  BY <1>1, HeadOfRing DEF HeadIsFront
<1>3. commit \in ROB!ROBEntry
  BY <1>1, <1>2 DEF TypeOK, RobTypeOK, Maybe
<1>4. code(rob_head) \in DecodedInstruction
  BY <1>1, <1>2, CodeIsInstruction
<1>5. /\ read(memory, commit.pc, WORD) # None
      /\ code(rob_head) = Decode[read(memory, commit.pc, WORD)]
      /\ commit.op = code(rob_head).op /\ commit.rd = code(rob_head).rd
      /\ commit.writes_rd <=> writes_rd(commit.op) /\ commit.rd # 0
  BY <1>1, <1>2 DEF CodeIsDecoded, code
<1>6. Sequential!read(memory, commit.pc, Sequential!WORD) = read(memory, commit.pc, WORD)
  BY SameAccesses, SameSizes
<1>7. /\ commit.op # "INVALID"
      /\ ~is_control(commit.op) =>
           commit.predicted_next_pc = add(commit.pc, InstructionWidth)
  BY <1>1, <1>2 DEF FlightIsSound, PathIsPredicted
<1>8. is_store(commit.op) <=> head_store_written
  BY <1>2 DEF head_store_written
<1>9. ring_pc = commit.pc
  BY <1>2 DEF ring_pc
<1> QED
  BY <1>2, <1>3, <1>4, <1>5, <1>6, <1>7, <1>8, <1>9

(* What a commit does to the interpreter's variables.                      *)
LEMMA CommitFollows ==
  ASSUME FlowInv, RightInv, Cycle, CodeInFlightStays, commit # None, commit.op # "HALT"
  PROVE  /\ committed_status = "Running" /\ committed_status' = "Running"
         /\ memory' = memory /\ exit_code' = exit_code
         /\ committed_pc = IF is_store(commit.op) THEN add(commit.pc, InstructionWidth)
                           ELSE commit.pc
         /\ committed_pc' = IF flush THEN commit.actual_next_pc ELSE commit.predicted_next_pc
         /\ register' = IF commit.writes_rd THEN [register EXCEPT ![commit.rd] = commit.value]
                        ELSE register
<1>1. /\ TypeOK /\ RobContiguous /\ TypeOK' /\ RobContiguous'
      /\ ResultsAreRight /\ PathIsPredicted
  BY FlowFacts, CycleTypes, CycleOfTheRing DEF RingInv, RightInv, FinishedIsRight
<1>2. /\ ring_pc = commit.pc /\ ROB!front = commit
      /\ is_store(commit.op) <=> head_store_written
  BY Committing
<1>3. ~halted
  BY DEF halted
<1>4. status = "Running" /\ status' \in {"Running", "MemoryOutOfBound"}
  BY <1>2, <1>3, StatusFollows
<1>5. committed_status = "Running" /\ committed_status' = "Running"
  BY <1>4 DEF committed_status
<1>6. memory' = memory
  BY MemoryStays DEF StoreIsWritten
<1>7. exit_code' = exit_code
  BY <1>3, CycleParts DEF next_exit_code
<1>8. ~head_store_written'
  BY <1>1, WrittenFollows
<1>9. CommittedPcIs /\ CommittedPcIs'
  BY <1>1, CommittedPc, PTL
<1>10. committed_pc = IF head_store_written THEN add(ring_pc, InstructionWidth) ELSE ring_pc
  BY <1>4, <1>9 DEF CommittedPcIs
<1>11. committed_pc' = ring_pc'
  BY <1>4, <1>8, <1>9 DEF CommittedPcIs
<1>12. ring_pc' = IF flush THEN commit.actual_next_pc ELSE commit.predicted_next_pc
  BY <1>1, <1>2, PathFollows DEF redirect_pc
<1>13. register' = IF commit.writes_rd THEN [register EXCEPT ![commit.rd] = commit.value]
                   ELSE register
  BY RegistersFollow
<1> QED
  BY <1>2, <1>5, <1>6, <1>7, <1>10, <1>11, <1>12, <1>13

(* The step of the interpreter that reads the word of the head.            *)
LEMMA InterpretsHead ==
  ASSUME FlowInv, RightInv, commit # None, committed_pc = commit.pc,
         committed_status = "Running"
  PROVE  /\ commit.op = "HALT" /\ Sequential!halt => Sequential!step
         /\ is_load(commit.op) /\ Sequential!access(code(rob_head)) => Sequential!step
         /\ FU!executable(commit.op) /\ Sequential!execute(code(rob_head)) => Sequential!step
<1> DEFINE word == Sequential!read(memory, committed_pc, Sequential!WORD)
           instruction == code(rob_head)
<1>1. word # None /\ Decode[word] = instruction /\ commit.op = instruction.op
  BY Committing
<1>2. Sequential!execute_word(word) => Sequential!step
  BY DEF Sequential!step
<1>3. commit.op = "HALT" /\ Sequential!halt => Sequential!execute_word(word)
  BY <1>1 DEF Sequential!execute_word
<1>4. is_load(commit.op) /\ Sequential!access(instruction) => Sequential!execute_word(word)
  BY <1>1, SameKinds DEF Sequential!execute_word
<1>5. FU!executable(commit.op) /\ Sequential!execute(instruction)
      => Sequential!execute_word(word)
  <2>1. FU!executable(commit.op) =>
          ~is_load(commit.op) /\ ~is_store(commit.op) /\ commit.op \notin {"HALT", "INVALID"}
    BY DEF FU!executable, FU!is_load, FU!LoadOps, is_load, LoadOps,
           FU!is_store, FU!StoreOps, is_store, StoreOps
  <2> QED
    BY <1>1, <2>1, SameKinds DEF Sequential!execute_word
<1> QED
  BY <1>2, <1>3, <1>4, <1>5

LEMMA ComputingCommits ==
  ASSUME FlowInv, RightInv, Cycle, CodeInFlightStays, commit # None,
         FU!executable(commit.op), commit.op \notin {"SLT", "SLTU"}
  PROVE  Sequential!step
<1> PICK instruction : instruction = code(rob_head)
  OBVIOUS
<1> DEFINE op == commit.op
<1>1. /\ rob_head \in RobIndex /\ age(rob_head) = 0 /\ commit = rob_cur[rob_head]
      /\ commit.ready /\ instruction \in DecodedInstruction
      /\ commit.op = instruction.op /\ commit.rd = instruction.rd
      /\ commit.writes_rd <=> writes_rd(commit.op) /\ commit.rd # 0
      /\ ~is_control(commit.op) =>
           commit.predicted_next_pc = add(commit.pc, InstructionWidth)
  BY Committing
<1>2. /\ ~is_store(op) /\ ~is_load(op) /\ op \notin {"HALT", "INVALID"}
      /\ op \in OP
  BY <1>1 DEF FU!executable, FU!is_load, FU!LoadOps, is_load, LoadOps,
     FU!is_store, FU!StoreOps, is_store, StoreOps, DecodedInstruction
<1>3. /\ committed_status = "Running" /\ committed_status' = "Running"
      /\ memory' = memory /\ exit_code' = exit_code
      /\ committed_pc = commit.pc
      /\ committed_pc' = IF flush THEN commit.actual_next_pc ELSE commit.predicted_next_pc
      /\ register' = IF commit.writes_rd THEN [register EXCEPT ![commit.rd] = commit.value]
                     ELSE register
  BY <1>2, CommitFollows
<1>4. Computes(rob_head, commit.value, commit.actual_next_pc) /\ rob_cur[rob_head] # None
  BY <1>1 DEF RightInv, FinishedIsRight, ResultsAreRight
<1> PICK lhs, rhs \in Word :
      /\ Supplies(lhs_source(op), rob_head, instruction.rs1, lhs)
      /\ Supplies(rhs_source(op), rob_head, instruction.rs2, rhs)
      /\ commit.value = FU!result_of(execution(rob_head, lhs, rhs))
      /\ is_control(op) => commit.actual_next_pc = FU!next_pc_of(execution(rob_head, lhs, rhs))
  BY <1>1, <1>4 DEF Computes
<1>5. lhs = lhs_of(instruction)
  <2>1. CASE lhs_source(op) = "Register"
    BY <1>1, <2>1, HeadReadsRegisters DEF Supplies, lhs_of
  <2>2. CASE lhs_source(op) # "Register"
    <3>1. lhs_source(op) \in {"ProgramCounter", "Zero"}
      BY <2>2 DEF lhs_source
    <3>2. lhs = constant_source(lhs_source(op), rob_head)
      BY <2>2 DEF Supplies
    <3> QED
      BY <1>1, <1>3, <2>2, <3>1, <3>2 DEF constant_source, lhs_of
  <2> QED
    BY <2>1, <2>2
<1>6. rhs = rhs_of(instruction)
  <2>1. CASE rhs_source(op) = "Register"
    BY <1>1, <2>1, HeadReadsRegisters DEF Supplies, rhs_of
  <2>2. CASE rhs_source(op) # "Register"
    <3>1. rhs_source(op) = "Immediate"
      BY <1>2, <2>2 DEF rhs_source
    <3>2. rhs = constant_source(rhs_source(op), rob_head)
      BY <2>2 DEF Supplies
    <3> QED
      BY <1>1, <2>2, <3>1, <3>2 DEF constant_source, rhs_of
  <2> QED
    BY <2>1, <2>2
<1> PICK execute : execute = execution(rob_head, lhs, rhs)
  OBVIOUS
<1>7. execute = [op |-> instruction.op, operand1 |-> lhs_of(instruction),
                 operand2 |-> rhs_of(instruction), immediate |-> instruction.immediate,
                 pc |-> committed_pc, tag |-> commit.tag]
  BY <1>1, <1>3, <1>5, <1>6 DEF execution
<1>8. /\ writes_rd(op) => commit.value = Sequential!computed(instruction)
      /\ is_control(op) => commit.actual_next_pc = Sequential!next_pc(instruction)
      /\ ~is_control(op) =>
           Sequential!next_pc(instruction) = add(committed_pc, InstructionWidth)
  BY <1>1, <1>7, SameResults
<1>9. committed_pc' = Sequential!next_pc(instruction)
  <2>1. flush => is_control(op)
    BY Committing DEF flush
  <2>2. ~flush /\ is_control(op) => commit.predicted_next_pc = commit.actual_next_pc
    BY <1>1, Committing DEF flush
  <2> QED
    BY <1>1, <1>3, <1>8, <2>1, <2>2
<1>10. register' = IF writes_rd(op) /\ instruction.rd # 0
                   THEN [register EXCEPT ![instruction.rd] = Sequential!computed(instruction)]
                   ELSE register
  BY <1>1, <1>3, <1>8
<1>11. Sequential!execute(instruction)
  <2>1. Sequential!go_on(instruction)
    BY <1>3, <1>9 DEF Sequential!go_on
  <2>2. IF Sequential!writes_rd(instruction.op)
        THEN Sequential!write_back(instruction.rd, Sequential!computed(instruction))
        ELSE UNCHANGED register
    BY <1>1, <1>10, SameKinds DEF Sequential!write_back
  <2> QED
    BY <1>3, <2>1, <2>2 DEF Sequential!execute
<1> QED
  BY <1>1, <1>3, <1>11, InterpretsHead

LEMMA LoadCommits ==
  ASSUME FlowInv, RightInv, Cycle, CodeInFlightStays, commit # None, is_load(commit.op)
  PROVE  Sequential!step
<1> PICK instruction : instruction = code(rob_head)
  OBVIOUS
<1> DEFINE op == commit.op
           width == LSQ!memory_width(op)
<1>1. /\ rob_head \in RobIndex /\ age(rob_head) = 0 /\ commit = rob_cur[rob_head]
      /\ commit.ready /\ instruction \in DecodedInstruction
      /\ commit.op = instruction.op /\ commit.rd = instruction.rd
      /\ commit.writes_rd <=> writes_rd(commit.op) /\ commit.rd # 0
      /\ ~is_control(commit.op) =>
           commit.predicted_next_pc = add(commit.pc, InstructionWidth)
  BY Committing
<1>2. ~is_store(op) /\ ~is_control(op) /\ writes_rd(op) /\ op # "HALT"
  BY DEF is_load, LoadOps, is_store, StoreOps, is_control, is_branch, BranchOps,
     is_jump, JumpOps, writes_rd
<1>3. /\ committed_status = "Running" /\ committed_status' = "Running"
      /\ memory' = memory /\ exit_code' = exit_code
      /\ committed_pc = commit.pc
      /\ committed_pc' = IF flush THEN commit.actual_next_pc ELSE commit.predicted_next_pc
      /\ register' = IF commit.writes_rd THEN [register EXCEPT ![commit.rd] = commit.value]
                     ELSE register
  BY <1>2, CommitFollows
<1>4. committed_pc' = Sequential!next_pc(instruction)
  <2>1. ~flush
    BY <1>2, Committing DEF flush
  <2> QED
    BY <1>1, <1>2, <1>3, <2>1, StraightOn
<1>5. Loads(rob_head, commit.value) /\ rob_cur[rob_head] # None
  BY <1>1 DEF RightInv, FinishedIsRight, ResultsAreRight
<1> PICK base \in Word :
      /\ Provides(age(rob_head), instruction.rs1, base)
      /\ in_bounds(add(base, instruction.immediate), width)
      /\ commit.value =
           LSQ!extend_load_result(op, read(memory, add(base, instruction.immediate), width))
  BY <1>1, <1>5 DEF Loads
<1>6. base = register[instruction.rs1]
  BY <1>1, HeadReadsRegisters
<1> PICK address : address = add(base, instruction.immediate)
  OBVIOUS
<1>7. Sequential!effective_address(instruction) = address
  BY <1>6, SameArithmetic, SameSums DEF Sequential!effective_address
<1>8. /\ address \in Word /\ memory \in Image
      /\ Sequential!access_width(instruction.op) = width
  <2>1. instruction.immediate \in Nat /\ base \in Nat
    BY <1>1, Sizes DEF DecodedInstruction
  <2> QED
    BY <1>1, <2>1, FlowFacts, Additions, SameSums, SameKinds DEF TypeOK
<1>9. commit.value = Sequential!loaded(instruction)
  BY <1>1, <1>7, <1>8, SameLoads, SameAccesses DEF Sequential!loaded
<1>10. Sequential!in_bounds(address, width)
  BY SameAccesses
<1>11. Sequential!access(instruction)
  <2>1. Sequential!go_on(instruction)
    BY <1>3, <1>4 DEF Sequential!go_on
  <2>2. Sequential!write_back(instruction.rd, Sequential!loaded(instruction))
    BY <1>1, <1>2, <1>3, <1>9 DEF Sequential!write_back
  <2>3. Sequential!is_load(instruction.op)
    BY <1>1, SameKinds
  <2> QED
    BY <1>3, <1>7, <1>8, <1>10, <2>1, <2>2, <2>3 DEF Sequential!access
<1> QED
  BY <1>1, <1>3, <1>11, InterpretsHead

LEMMA StoreCommits ==
  ASSUME FlowInv, RightInv, Cycle, CodeInFlightStays, commit # None, is_store(commit.op)
  PROVE  UNCHANGED Sequential!vars
<1>1. commit.op # "HALT" /\ ~is_control(commit.op) /\ ~writes_rd(commit.op)
  BY Kinds DEF is_store, StoreOps, is_control, is_branch, BranchOps, is_jump, JumpOps
<1>2. /\ ~commit.writes_rd /\ ~flush
      /\ commit.predicted_next_pc = add(commit.pc, InstructionWidth)
  BY <1>1, Committing DEF flush
<1> QED
  BY <1>1, <1>2, CommitFollows DEF Sequential!vars

(* Behind a HALT nothing was fetched, so that the fetch address is the one *)
(* behind it.                                                              *)
LEMMA HaltCommits ==
  ASSUME FlowInv, RightInv, Cycle, commit # None, commit.op = "HALT"
  PROVE  Sequential!step
<1>1. /\ RingInv /\ TypeOK /\ RobContiguous /\ StoppedBehindHalt /\ PathIsPredicted
  BY FlowFacts DEF RingInv, FlowInv, IInv, RightInv
<1>2. /\ rob_head \in RobIndex /\ age(rob_head) = 0 /\ commit = rob_cur[rob_head]
      /\ rob_cur[rob_head] # None /\ commit \in ROB!ROBEntry
      /\ ring_pc = commit.pc
      /\ is_store(commit.op) <=> head_store_written
      /\ ~is_control(commit.op) =>
           commit.predicted_next_pc = add(commit.pc, InstructionWidth)
      /\ commit.writes_rd <=> writes_rd(commit.op) /\ commit.rd # 0
      /\ ROB!front = commit
  BY Committing
<1>3. ~is_control(commit.op) /\ ~is_store(commit.op) /\ ~writes_rd(commit.op)
  BY DEF is_store, StoreOps, is_control, is_branch, BranchOps, is_jump, JumpOps,
     writes_rd, RegisterOps, ImmediateOps, UpperOps, LoadOps
<1>4. status = "Running" /\ status' = "Halted" /\ halted
  BY StatusFollows DEF halted
<1>5. committed_status = "Running" /\ committed_status' = "Halted"
  BY <1>4 DEF committed_status
<1>6. committed_pc = commit.pc
  BY <1>1, <1>2, <1>3, <1>4, CommittedPc DEF CommittedPcIs
<1>7. rob_count \in Nat /\ rob_count = 1 /\ current_pc = commit.predicted_next_pc
  <2>1. rob_count \in Nat /\ 0 = rob_count - 1
    BY <1>1, <1>2 DEF TypeOK, RobTypeOK, PathIsPredicted
  <2> QED
    BY <1>1, <1>2, <2>1 DEF PathIsPredicted
<1>8. fetch_stopped
  <2>1. ASSUME NEW other \in RobIndex, rob_cur[other] # None
        PROVE  age(other) <= age(rob_head)
    <3>1. age(other) \in Nat /\ age(other) < rob_count
      BY <1>1, <2>1, Ages DEF RobContiguous
    <3> QED
      BY <1>2, <1>7, <3>1
  <2> QED
    BY <1>1, <1>2, <1>4, <2>1 DEF StoppedBehindHalt
<1>9. current_pc' = add(commit.pc, InstructionWidth)
  <2>1. issue_outputs.rob = None
    BY <1>1, <1>8, NoIssueWhenStopped
  <2>2. ~flush
    BY <1>2, <1>3 DEF flush
  <2> QED
    BY <1>2, <1>3, <1>7, <2>1, <2>2, CycleParts DEF next_pc
<1>10. committed_pc' = commit.pc
  <2>1. commit.pc \in Word
    BY <1>2, SameRecords
  <2>2. committed_pc' = (current_pc' + WordSize - InstructionWidth) % WordSize
    BY <1>4 DEF committed_pc
  <2> QED
    BY <1>9, <2>1, <2>2, BackAgain
<1>11. register' = register /\ memory' = memory
  BY <1>2, <1>3, RegistersFollow, MemoryStays DEF StoreIsWritten
<1>12. exit_code' = register[ExitRegister] % Sequential!ByteSize
  BY <1>4, CycleParts, SameSizes DEF next_exit_code
<1>13. Sequential!halt
  BY <1>5, <1>6, <1>10, <1>11, <1>12 DEF Sequential!halt
<1> QED
  BY <1>5, <1>6, <1>13, InterpretsHead

----------------------------------------------------------------------------
(* Without a commit, only memory and what is wrong can be steps.           *)

LEMMA NoCommit ==
  ASSUME FlowInv, RightInv, Cycle, CodeInFlightStays, commit = None
  PROVE  /\ ~halted /\ ~flush /\ status = "Running" /\ committed_status = "Running"
         /\ register' = register /\ exit_code' = exit_code /\ ring_pc' = ring_pc
         /\ committed_pc = IF head_store_written THEN add(ring_pc, InstructionWidth)
                           ELSE ring_pc
         /\ status' # "Halted" =>
              committed_pc' = IF head_store_written \/ StoreIsWritten
                              THEN add(ring_pc, InstructionWidth) ELSE ring_pc
<1>1. /\ TypeOK /\ RobContiguous /\ TypeOK' /\ RobContiguous'
      /\ ResultsAreRight /\ PathIsPredicted
  BY FlowFacts, CycleTypes, CycleOfTheRing DEF RingInv, RightInv, FinishedIsRight
<1>2. ~halted /\ ~flush /\ status = "Running" /\ committed_status = "Running"
  BY <1>1, Retiring, StatusFollows DEF halted, committed_status
<1>3. register' = register /\ exit_code' = exit_code
  BY <1>2, RegistersFollow, CycleParts DEF next_exit_code
<1>4. ring_pc' = ring_pc
  BY <1>1, <1>2, PathFollows
<1>5. CommittedPcIs /\ CommittedPcIs'
  BY <1>1, CommittedPc, PTL
<1>6. head_store_written' <=> head_store_written \/ StoreIsWritten
  BY <1>1, WrittenFollows
<1>7. status' # "Halted" =>
        committed_pc' = IF head_store_written' THEN add(ring_pc', InstructionWidth)
                        ELSE ring_pc'
  BY <1>5 DEF CommittedPcIs
<1> QED
  BY <1>2, <1>3, <1>4, <1>5, <1>6, <1>7 DEF CommittedPcIs

(* The interpreter executes a store when memory does.                      *)
LEMMA StoreWrites ==
  ASSUME FlowInv, RightInv, Cycle, CodeInFlightStays, StoreIsWritten
  PROVE  /\ Sequential!step /\ committed_status' = "Running"
         /\ commit = None /\ ~head_store_written
         /\ is_store(Decode[Sequential!read(memory, committed_pc, Sequential!WORD)].op)
<1> PICK instruction : instruction = code(rob_head)
  OBVIOUS
<1> PICK entry : entry = LSQ!front
  OBVIOUS
<1> DEFINE width == LSQ!memory_width(entry.op)
           word == Sequential!read(memory, committed_pc, Sequential!WORD)
<1>1. /\ TypeOK /\ CodeIsDecoded /\ QueueIsRight /\ RequestsAreFinal
  BY FlowFacts DEF FlowInv, MemoryInv, RightInv, OperandsAreRight
<1>2. asked /\ is_store(entry.op) /\ in_bounds(entry.address, width)
  BY DEF StoreIsWritten, StoreIsServed
<1>3. /\ lsq_head \in LSQ!Slot /\ lsq_cur[lsq_head] # None /\ entry = lsq_cur[lsq_head]
      /\ entry.request_sent /\ entry.destination.index = rob_head
      /\ rob_head \in RobIndex /\ rob_cur[rob_head] # None /\ ROB!front = rob_cur[rob_head]
      /\ rob_cur[rob_head].op = entry.op /\ commit = None
  BY <1>2, AskingStore DEF asked
<1>4. age(rob_head) = 0
  BY <1>1, <1>3, Ages
<1>5. entry.address_ready /\ entry.store_data.ready
  BY <1>1, <1>3 DEF RequestsAreFinal
<1>6. /\ entry.immediate = instruction.immediate
      /\ entry.base.ready /\ entry.address = add(entry.base.value, entry.immediate)
      /\ Provides(0, instruction.rs1, entry.base.value)
      /\ Provides(0, instruction.rs2, entry.store_data.value)
  BY <1>1, <1>2, <1>3, <1>4, <1>5 DEF QueueIsRight, AccessIsRight, RegisterIsRight
<1>7. /\ entry.base.value = register[instruction.rs1]
      /\ entry.store_data.value = register[instruction.rs2]
  BY <1>6, HeadReadsRegisters
<1>8. Sequential!effective_address(instruction) = entry.address
  BY <1>6, <1>7, SameArithmetic, SameSums DEF Sequential!effective_address
<1>9. /\ word # None /\ Decode[word] = instruction /\ instruction.op = entry.op
  <2>1. ~head_store_written /\ ROB!front # None
    BY <1>2, <1>3, MemoryStays DEF StoreIsWritten
  <2>2. committed_pc = rob_cur[rob_head].pc
    BY <1>3, <2>1, NoCommit DEF ring_pc
  <2> QED
    BY <1>1, <1>3, <2>2, SameAccesses, SameSizes DEF CodeIsDecoded, code
<1>10. /\ committed_status = "Running" /\ committed_status' = "Running"
       /\ register' = register /\ exit_code' = exit_code
       /\ committed_pc' = add(committed_pc, InstructionWidth)
  <2>1. ~head_store_written /\ ROB!front # None
    BY <1>2, <1>3, MemoryStays DEF StoreIsWritten
  <2>2. ~halted
    BY <1>3 DEF halted
  <2>3. status' \in {"Running", "MemoryOutOfBound"}
    BY <2>1, <2>2, StatusFollows
  <2> QED
    BY <1>3, <2>1, <2>3, NoCommit DEF committed_status
<1>11. memory' = write(memory, entry.address, width, register[instruction.rs2])
  BY <1>7, MemoryStays
<1>12. Sequential!access(instruction)
  <2>1. ~is_control(instruction.op)
    BY <1>2, <1>9 DEF is_store, StoreOps, is_control, is_branch, BranchOps, is_jump, JumpOps
  <2>2. Sequential!go_on(instruction)
    BY <1>10, <2>1, StraightOn DEF Sequential!go_on
  <2>3. Sequential!is_store(instruction.op) /\ Sequential!access_width(instruction.op) = width
    BY <1>2, <1>9, SameKinds
  <2>4. /\ Sequential!in_bounds(entry.address, width)
        /\ memory' = Sequential!write(memory, entry.address, width, register[instruction.rs2])
    BY <1>2, <1>11, SameAccesses
  <2> QED
    BY <1>8, <1>10, <2>2, <2>3, <2>4 DEF Sequential!access
<1>13. Sequential!execute_word(word)
  BY <1>2, <1>9, <1>12, SameKinds DEF Sequential!execute_word
<1> QED
  BY <1>2, <1>3, <1>9, <1>10, <1>13, MemoryStays DEF Sequential!step, StoreIsWritten

(* What is wrong is told once everything older is committed.               *)
LEMMA NothingCommits ==
  ASSUME FlowInv, RightInv, Cycle, CodeInFlightStays, commit = None, ~StoreIsWritten
  PROVE  \/ UNCHANGED Sequential!vars
         \/ Sequential!step /\ committed_status' # "Running" /\ ~head_store_written
<1> DEFINE word == Sequential!read(memory, committed_pc, Sequential!WORD)
<1>1. /\ ~halted /\ status = "Running" /\ committed_status = "Running"
      /\ register' = register /\ exit_code' = exit_code /\ memory' = memory
      /\ status' # "Halted" => committed_pc' = committed_pc
      /\ ROB!front = None => committed_pc = current_pc
  <2>1. ROB!front = None => ~head_store_written
    BY DEF head_store_written
  <2> QED
    BY <2>1, NoCommit, MemoryStays DEF ring_pc
<1>2. status' \in {"Running", "MemoryOutOfBound"} => UNCHANGED Sequential!vars
  BY <1>1 DEF committed_status, Sequential!vars
<1>3. ASSUME status' \notin {"Running", "MemoryOutOfBound"}
      PROVE  Sequential!step /\ committed_status' # "Running" /\ ~head_store_written
  <2>1. ROB!front = None /\ committed_pc = current_pc /\ ~head_store_written
    BY <1>1, <1>3, StatusFollows DEF head_store_written
  <2>2. word = fetched
    BY <2>1, SameAccesses, SameSizes, SameMemory DEF fetched, MEM!fetch
  <2>3. committed_status' = status' /\ committed_pc' = committed_pc
    BY <1>1, <1>3, <2>1, StatusFollows DEF committed_status
  <2>4. CASE status' = "InvalidInstruction" /\ word # None /\ Decode[word].op = "INVALID"
    <3>1. Sequential!stop("InvalidInstruction")
      BY <1>1, <2>3, <2>4 DEF Sequential!stop
    <3> QED
      BY <1>1, <2>1, <2>3, <2>4, <3>1 DEF Sequential!step, Sequential!execute_word
  <2>5. CASE status' = "FetchOutOfBound" /\ word = None
    <3>1. Sequential!stop("FetchOutOfBound")
      BY <1>1, <2>3, <2>5 DEF Sequential!stop
    <3> QED
      BY <1>1, <2>1, <2>3, <2>5, <3>1 DEF Sequential!step, Sequential!execute_word
  <2> QED
    BY <1>1, <1>3, <2>1, <2>2, <2>4, <2>5, StatusFollows
<1> QED
  BY <1>2, <1>3

----------------------------------------------------------------------------
(* Every step of the CPU is one of the interpreter, or none.               *)

(* The interpreter compares with the immediate field in SLT and SLTU       *)
(* (set_less_than in interpreter.cpp), the functional unit with rs2: their *)
(* results differ, and no implementation of the one is the other.          *)
NoSetLessThan == commit # None => commit.op \notin {"SLT", "SLTU"}

LEMMA CommitSteps ==
  ASSUME FlowInv, RightInv, Cycle, CodeInFlightStays, NoSetLessThan,
         commit # None, ~is_store(commit.op)
  PROVE  Sequential!step
<1>1. commit.op \in OP /\ commit.op # "INVALID"
  BY Committing DEF DecodedInstruction
<1>2. CASE commit.op = "HALT"
  BY <1>2, HaltCommits
<1>3. CASE is_load(commit.op)
  BY <1>3, LoadCommits
<1>4. CASE commit.op # "HALT" /\ ~is_load(commit.op)
  <2>1. FU!executable(commit.op)
    BY <1>1, <1>4 DEF FU!executable, FU!is_load, FU!LoadOps, is_load, LoadOps,
       FU!is_store, FU!StoreOps, is_store, StoreOps
  <2> QED
    BY <2>1, ComputingCommits DEF NoSetLessThan
<1> QED
  BY <1>2, <1>3, <1>4

LEMMA CycleRefines ==
  ASSUME FlowInv, RightInv, Cycle, CodeInFlightStays, NoSetLessThan
  PROVE  Sequential!step \/ UNCHANGED Sequential!vars
BY CommitSteps, StoreCommits, StoreWrites, NothingCommits

LEMMA InitRefines == Init => Sequential!Init
<1> SUFFICES ASSUME Init PROVE Sequential!Init
  OBVIOUS
<1>1. /\ register = [r \in Sequential!RegisterIndex |-> 0]
      /\ memory = [address \in 0 .. MemorySize - 1 |-> 0]
      /\ current_pc = 0 /\ status = "NotLoaded" /\ exit_code = 0
  BY SameSizes DEF Init, RF!Init, MEM!Init, RF!RegisterIndex, RegisterIndex
<1>2. ROB!empty
  BY InitEmpties DEF RingIsEmpty, ROB!empty
<1>3. committed_pc = 0 /\ committed_status = "NotLoaded"
  BY <1>1, <1>2 DEF committed_pc, committed_status
<1> QED
  BY <1>1, <1>3 DEF Sequential!Init

LEMMA LoadRefines == Load => Sequential!load
<1> SUFFICES ASSUME Load PROVE Sequential!load
  OBVIOUS
<1>1. /\ register' = [r \in Sequential!RegisterIndex |-> 0]
      /\ memory' \in Sequential!Image
      /\ current_pc' = 0 /\ status' \in {"Running", "LoadError"} /\ exit_code' = 0
  BY CPUAssumption, SameSizes
     DEF Load, RF!reset, MEM!load, RF!RegisterIndex, RegisterIndex
<1>2. RingIsEmpty'
  BY LoadEmpties
<1>3. ROB!empty'
  BY <1>2 DEF RingIsEmpty, ROB!empty
<1>4. committed_pc' = 0 /\ committed_status' \in {"Running", "LoadError"}
  BY <1>1, <1>3 DEF committed_pc, committed_status
<1> QED
  BY <1>1, <1>4 DEF Sequential!load

LEMMA StutterRefines == UNCHANGED vars => UNCHANGED Sequential!vars
BY DEF vars, coreVars, Sequential!vars, committed_pc, committed_status, head_store_written,
   ROB!front, ROB!empty

(* README.md, "ROB guarantees that the program state is updated in order": *)
(* with every capacity, latency, prediction and program, registers,        *)
(* memory, exit code and stop reason change as if the interpreter ran the  *)
(* program.  What is assumed of the program is that it does not write over *)
(* instructions in flight, and that no SLT or SLTU commits.                *)
THEOREM ProgramOrder ==
  Spec /\ [][CodeInFlightStays]_vars /\ []NoSetLessThan => ImplementsInterpreter
<1>1. /\ FlowInv /\ RightInv /\ NoSetLessThan
      /\ [MainNext]_vars /\ [CodeInFlightStays]_vars
      => [Sequential!Next]_(Sequential!vars)
  <2> SUFFICES ASSUME FlowInv, RightInv, NoSetLessThan,
                      [MainNext]_vars, [CodeInFlightStays]_vars
               PROVE  Sequential!Next \/ UNCHANGED Sequential!vars
    OBVIOUS
  <2>1. CASE LoadOnce
    BY <2>1, LoadRefines DEF LoadOnce, Sequential!Next
  <2>2. CASE Cycle /\ CodeInFlightStays
    BY <2>2, CycleRefines DEF Sequential!Next
  <2>3. CASE UNCHANGED vars
    BY <2>3, StutterRefines
  <2> QED
    BY <2>1, <2>2, <2>3 DEF MainNext
<1> QED
  BY <1>1, InitRefines, FlowInvariance, RightInvariance, PTL
  DEF Spec, ImplementsInterpreter, Sequential!Spec

----------------------------------------------------------------------------
(* A branch is counted as correct only when it is counted.                 *)
CountsInRange ==
  /\ prediction_count \in 0 .. MaxCount
  /\ correct_count \in 0 .. prediction_count

----------------------------------------------------------------------------
LEMMA ProgramStepsKeepFlow == FlowInv /\ [ProgramNext]_programVars => FlowInv'
<1>1. FlowInv /\ LoadProgram => FlowInv'
  BY LoadFlows DEF LoadProgram
<1>2. FlowInv /\ RunCycle => FlowInv'
  BY CyclePreserves DEF RunCycle
<1>3. FlowInv /\ (Exit \/ UNCHANGED programVars) => FlowInv'
  BY StutterFlows DEF Exit, programVars
<1> QED
  BY <1>1, <1>2, <1>3 DEF ProgramNext

(* CPU::load() (cpu.cpp:84-120) may interrupt the CPU in any state, with a *)
(* transaction in flight, a full ring or a fetch that is stopped: all that *)
(* is true of a program that is loaded once is true of the next as well.   *)
THEOREM ReloadsAreSafe == ProgramSpec => []FlowInv
<1>1. ProgramInit => FlowInv
  BY InitFlows DEF ProgramInit
<1> QED
  BY <1>1, ProgramStepsKeepFlow, PTL DEF ProgramSpec

(* What memory writes for a store is the store at the head of the ring,    *)
(* also when the program before it was interrupted by a reload.            *)
THEOREM StoresWaitAcrossReloads == ProgramSpec => []StoresAreNonSpeculative
BY ReloadsAreSafe, StoresAreHeads, PTL

----------------------------------------------------------------------------
LEMMA CountingUp ==
  ASSUME NEW n \in 0 .. MaxCount, NEW condition \in BOOLEAN
  PROVE  /\ count_up(n) \in 0 .. MaxCount
         /\ count_if(condition, n) \in 0 .. MaxCount
         /\ count_if(condition, n) \in {n, n + 1}
         /\ n < MaxCount => count_if(condition, n) = n + (IF condition THEN 1 ELSE 0)
BY ProgramAssumption DEF count_up, count_if

(* What the predictor is told of a branch that commits: the pipeline is    *)
(* emptied in the same cycle if, and only if, its guess was wrong.         *)
LEMMA WrongIsFlushed ==
  /\ predictor_update # None =>
       /\ predictor_update = ROB!front /\ is_branch(ROB!front.op)
       /\ flush <=> ~predicted_correctly
  /\ predictor_update = None => ~(flush /\ is_branch(ROB!front.op))
BY DEF predictor_update, predicted_correctly, commit, flush, ROB!commit, is_control

LEMMA CycleCounts ==
  ASSUME CountsInRange, RunCycle
  PROVE  CountsInRange' /\ WrongBranchesFlush
<1>1. /\ prediction_count \in 0 .. MaxCount /\ correct_count \in 0 .. MaxCount
      /\ correct_count <= prediction_count
  BY ProgramAssumption DEF CountsInRange
<1>2. /\ prediction_count' = count_if(predictor_update # None, prediction_count)
      /\ correct_count' = IF predictor_update = None THEN correct_count
                          ELSE count_if(predicted_correctly, correct_count)
  BY DEF RunCycle
<1>3. CASE predictor_update = None
  <2>1. prediction_count' = prediction_count /\ correct_count' = correct_count
    BY <1>2, <1>3 DEF count_if
  <2> QED
    BY <1>1, <1>3, <2>1, WrongIsFlushed, ProgramAssumption DEF CountsInRange, WrongBranchesFlush
<1>4. CASE predictor_update # None
  <2>1. predicted_correctly \in BOOLEAN
    BY DEF predicted_correctly
  <2>2. /\ prediction_count' = count_up(prediction_count)
        /\ correct_count' = count_if(predicted_correctly, correct_count)
    BY <1>2, <1>4 DEF count_if
  <2>3. CASE prediction_count < MaxCount
    <3>1. prediction_count' = prediction_count + 1
      BY <1>1, <2>2, <2>3 DEF count_up
    <3>2. correct_count' = correct_count + (IF predicted_correctly THEN 1 ELSE 0)
      BY <1>1, <2>1, <2>2, <2>3, CountingUp, ProgramAssumption
    <3>3. flush /\ is_branch(ROB!front.op) <=> ~predicted_correctly
      BY <1>4, WrongIsFlushed
    <3>4. CountsInRange'
      BY <1>1, <2>3, <3>1, <3>2, ProgramAssumption DEF CountsInRange
    <3> QED
      BY <1>1, <2>1, <3>1, <3>2, <3>3, <3>4, ProgramAssumption DEF WrongBranchesFlush
  <2>4. CASE prediction_count = MaxCount
    <3>1. prediction_count' = MaxCount
      BY <2>2, <2>4 DEF count_up
    <3>2. correct_count' \in 0 .. MaxCount
      BY <1>1, <2>1, <2>2, CountingUp
    <3>3. ~(prediction_count < MaxCount)
      BY <2>4, ProgramAssumption
    <3>4. WrongBranchesFlush
      BY <3>3 DEF WrongBranchesFlush
    <3> QED
      BY <3>1, <3>2, <3>4, ProgramAssumption DEF CountsInRange
  <2> QED
    BY <1>1, <2>3, <2>4, ProgramAssumption
<1> QED
  BY <1>3, <1>4

LEMMA StepsCount ==
  ASSUME CountsInRange, [ProgramNext]_programVars
  PROVE  CountsInRange' /\ WrongBranchesFlush
<1>1. CASE RunCycle
  BY <1>1, CycleCounts
<1>2. CASE LoadProgram /\ ~RunCycle
  BY <1>2, ProgramAssumption DEF LoadProgram, CountsInRange, WrongBranchesFlush
<1>3. CASE (Exit \/ UNCHANGED programVars) /\ ~RunCycle
  BY <1>3 DEF Exit, programVars, statistics, CountsInRange, WrongBranchesFlush
<1> QED
  BY <1>1, <1>2, <1>3 DEF ProgramNext

(* correct_predictions never exceeds the predictions it is divided by in   *)
(* accuracy() (branch_predictor.cpp:69-79), not after a reload either.     *)
THEOREM CountsStayInRange == ProgramSpec => []CountsInRange
<1>1. ProgramInit => CountsInRange
  BY ProgramAssumption DEF ProgramInit, CountsInRange
<1> QED
  BY <1>1, StepsCount, PTL DEF ProgramSpec

(* Each branch not counted as correct (branch_predictor.cpp:42) is one the *)
(* pipeline is emptied for in the same cycle (cpu.cpp:140), and the other  *)
(* way round: the count of right predictions is right.                     *)
THEOREM WrongCountsAreFlushes == ProgramSpec => IncorrectMeansFlushed
<1>1. CountsInRange /\ [ProgramNext]_programVars => [WrongBranchesFlush]_programVars
  BY StepsCount
<1> QED
  BY <1>1, CountsStayInRange, PTL DEF ProgramSpec, IncorrectMeansFlushed

----------------------------------------------------------------------------
(* What main() prints.  SequentialProgram is the interpreter once more.    *)
LEMMA SameInterpreter ==
  /\ UNCHANGED PrintedProgram!vars <=> UNCHANGED Sequential!vars
  /\ PrintedProgram!Init <=> Sequential!Init
  /\ PrintedProgram!load <=> Sequential!load
  /\ PrintedProgram!step <=> Sequential!step
BY DEF PrintedProgram!vars, Sequential!vars, PrintedProgram!Init, Sequential!Init,
   PrintedProgram!load, Sequential!load, PrintedProgram!step, Sequential!step,
   PrintedProgram!execute_word, Sequential!execute_word, PrintedProgram!halt,
   Sequential!halt, PrintedProgram!stop, Sequential!stop, PrintedProgram!access,
   Sequential!access, PrintedProgram!execute, Sequential!execute, PrintedProgram!go_on,
   Sequential!go_on, PrintedProgram!write_back, Sequential!write_back,
   PrintedProgram!effective_address, Sequential!effective_address,
   PrintedProgram!access_width, Sequential!access_width, PrintedProgram!loaded,
   Sequential!loaded, PrintedProgram!next_pc, Sequential!next_pc,
   PrintedProgram!branch_taken, Sequential!branch_taken, PrintedProgram!computed,
   Sequential!computed, PrintedProgram!operand2, Sequential!operand2,
   PrintedProgram!next_instruction, Sequential!next_instruction, PrintedProgram!in_bounds,
   Sequential!in_bounds, PrintedProgram!read, Sequential!read, PrintedProgram!write,
   Sequential!write, PrintedProgram!is_load, Sequential!is_load, PrintedProgram!is_store,
   Sequential!is_store, PrintedProgram!writes_rd, Sequential!writes_rd,
   PrintedProgram!LoadOps, Sequential!LoadOps, PrintedProgram!StoreOps,
   Sequential!StoreOps, PrintedProgram!RegisterOps, Sequential!RegisterOps,
   PrintedProgram!ImmediateOps, Sequential!ImmediateOps, PrintedProgram!UpperOps,
   Sequential!UpperOps, PrintedProgram!JumpOps, Sequential!JumpOps, PrintedProgram!add,
   Sequential!add, PrintedProgram!sub, Sequential!sub, PrintedProgram!signed,
   Sequential!signed, PrintedProgram!signed_less_than, Sequential!signed_less_than,
   PrintedProgram!signed_greater_equal, Sequential!signed_greater_equal,
   PrintedProgram!get_bit, Sequential!get_bit, PrintedProgram!BitPosition,
   Sequential!BitPosition, PrintedProgram!from_bits, Sequential!from_bits,
   PrintedProgram!bit_and, Sequential!bit_and, PrintedProgram!bit_or, Sequential!bit_or,
   PrintedProgram!bit_xor, Sequential!bit_xor, PrintedProgram!shift_amount,
   Sequential!shift_amount, PrintedProgram!shift_left, Sequential!shift_left,
   PrintedProgram!shift_right, Sequential!shift_right,
   PrintedProgram!arithmetic_shift_right, Sequential!arithmetic_shift_right,
   PrintedProgram!clear_least_significant_bit, Sequential!clear_least_significant_bit,
   PrintedProgram!zero_extend, Sequential!zero_extend, PrintedProgram!sign_extend,
   Sequential!sign_extend, PrintedProgram!ByteSize, Sequential!ByteSize,
   PrintedProgram!WordBits, Sequential!WordBits, PrintedProgram!WordSize,
   Sequential!WordSize, PrintedProgram!RegisterIndex, Sequential!RegisterIndex,
   PrintedProgram!Image, Sequential!Image, PrintedProgram!Byte, Sequential!Byte,
   PrintedProgram!BYTE, Sequential!BYTE, PrintedProgram!HALF, Sequential!HALF,
   PrintedProgram!WORD, Sequential!WORD

(* What has been counted when the store at the head is written.            *)
instructions_done ==
  IF head_store_written THEN count_up(committed_count) ELSE committed_count

CommittedInRange == committed_count \in 0 .. MaxCount

NoStoreBehindHalt == status = "Halted" => ~head_store_written

LEMMA SameBranch ==
  PrintedProgram!executes_branch
    <=> is_branch(Decode[Sequential!read(memory, committed_pc, Sequential!WORD)].op)
BY DEF PrintedProgram!executes_branch, PrintedProgram!is_branch, is_branch,
   PrintedProgram!BranchOps, BranchOps, PrintedProgram!read, Sequential!read,
   PrintedProgram!in_bounds, Sequential!in_bounds, PrintedProgram!WORD, Sequential!WORD,
   PrintedProgram!ByteSize, Sequential!ByteSize

LEMMA SameCounting ==
  ASSUME NEW n \in 0 .. MaxCount, NEW condition \in BOOLEAN
  PROVE  /\ PrintedProgram!count_if(condition, n) = count_if(condition, n)
         /\ count_if(FALSE, n) = n /\ count_if(TRUE, n) = count_up(n)
<1>1. n \in Nat /\ MaxCount \in Nat /\ n <= MaxCount
  BY ProgramAssumption
<1> QED
  BY <1>1 DEF PrintedProgram!count_if, count_if, count_up

(* A cycle in which the interpreter takes no step counts nothing new.      *)
LEMMA CycleIsPrinted ==
  ASSUME FlowInv, RightInv, CountsInRange, CommittedInRange, RunCycle,
         CodeInFlightStays, NoSetLessThan
  PROVE  \/ PrintedProgram!StepProgram
         \/ /\ UNCHANGED Sequential!vars
            /\ UNCHANGED <<instructions_done, prediction_count, output>>
<1> DEFINE word == Sequential!read(memory, committed_pc, Sequential!WORD)
           running == committed_status' = "Running"
           branching == is_branch(Decode[word].op)
<1>1. /\ Cycle /\ output = None /\ output' = output
      /\ committed_count' = count_if(counted, committed_count)
      /\ prediction_count' = count_if(predictor_update # None, prediction_count)
  BY DEF RunCycle
<1>2. /\ committed_count \in 0 .. MaxCount /\ prediction_count \in 0 .. MaxCount
  BY DEF CommittedInRange, CountsInRange
<1>3. /\ instructions_done = IF head_store_written THEN count_up(committed_count)
                             ELSE committed_count
      /\ instructions_done' = IF head_store_written' THEN count_up(committed_count')
                              ELSE committed_count'
  BY DEF instructions_done, count_up
<1>4. head_store_written' <=> commit = None /\ (head_store_written \/ StoreIsWritten)
  BY <1>1, WrittenFollows DEF RightInv, FinishedIsRight
<1>5. predictor_update # None <=> commit # None /\ is_branch(commit.op)
  BY DEF predictor_update
<1>6. counted <=> commit # None /\ commit.op # "HALT"
  BY DEF counted
<1>7. running \in BOOLEAN /\ branching \in BOOLEAN
  BY DEF is_branch
<1>8. ASSUME Sequential!step, ~head_store_written,
             instructions_done' = count_if(running, committed_count),
             prediction_count' = count_if(running /\ branching, prediction_count)
      PROVE  PrintedProgram!StepProgram
  <2>1. /\ PrintedProgram!count_if(running, instructions_done) = count_if(running, committed_count)
        /\ PrintedProgram!count_if(running /\ PrintedProgram!executes_branch, prediction_count)
             = count_if(running /\ branching, prediction_count)
    BY <1>2, <1>3, <1>7, <1>8, SameCounting, SameBranch
  <2> QED
    BY <1>1, <1>8, <2>1, SameInterpreter DEF PrintedProgram!StepProgram, instructions_done
<1>9. \A n \in 0 .. MaxCount : count_if(FALSE, n) = n /\ count_if(TRUE, n) = count_up(n)
  BY SameCounting
<1>10. CASE commit = None /\ StoreIsWritten
  <2>1. /\ Sequential!step /\ running /\ ~head_store_written
        /\ is_store(Decode[word].op)
    BY <1>1, <1>10, StoreWrites DEF running
  <2>2. ~branching
    BY <2>1 DEF branching, is_store, StoreOps, is_branch, BranchOps
  <2>3. committed_count' = committed_count /\ prediction_count' = prediction_count
    BY <1>1, <1>2, <1>5, <1>6, <1>9, <1>10 DEF count_if
  <2>4. instructions_done' = count_up(committed_count)
    BY <1>3, <1>4, <1>10, <2>3
  <2> QED
    BY <1>2, <1>7, <1>8, <2>1, <2>2, <2>3, <2>4 DEF count_if
<1>11. CASE commit = None /\ ~StoreIsWritten
  <2>1. committed_count' = committed_count /\ prediction_count' = prediction_count
    BY <1>1, <1>2, <1>5, <1>6, <1>9, <1>11 DEF count_if
  <2>2. head_store_written' <=> head_store_written
    BY <1>4, <1>11
  <2>3. instructions_done' = instructions_done
    BY <1>3, <2>1, <2>2
  <2>4. CASE UNCHANGED Sequential!vars
    BY <1>1, <2>1, <2>3, <2>4
  <2>5. CASE Sequential!step /\ ~running /\ ~head_store_written
    BY <1>3, <1>8, <2>1, <2>3, <2>5 DEF count_if
  <2> QED
    BY <1>1, <1>11, <2>4, <2>5, NothingCommits DEF running
<1>12. ASSUME commit # None, ~is_store(commit.op), Sequential!step,
              running <=> commit.op # "HALT"
       PROVE  PrintedProgram!StepProgram
  <2>1. /\ ~head_store_written /\ ring_pc = commit.pc /\ status = "Running"
        /\ Decode[Sequential!read(memory, commit.pc, Sequential!WORD)].op = commit.op
    BY <1>1, <1>12, Committing, StatusFollows
  <2>2. TypeOK /\ RobContiguous
    BY FlowFacts DEF RingInv
  <2>3. committed_pc = commit.pc
    BY <2>1, <2>2, CommittedPc DEF CommittedPcIs
  <2>4. branching <=> is_branch(commit.op)
    BY <2>1, <2>3 DEF branching
  <2>5. is_branch(commit.op) => commit.op # "HALT"
    BY DEF is_branch, BranchOps
  <2>6. ~head_store_written'
    BY <1>4, <1>12
  <2>7. instructions_done' = count_if(running, committed_count)
    BY <1>1, <1>3, <1>6, <1>12, <2>6 DEF count_if
  <2>8. prediction_count' = count_if(running /\ branching, prediction_count)
    BY <1>1, <1>5, <1>12, <2>4, <2>5 DEF count_if
  <2> QED
    BY <1>8, <1>12, <2>1, <2>7, <2>8
<1>13. CASE commit # None /\ ~is_store(commit.op)
  <2>1. Sequential!step
    BY <1>1, <1>13, CommitSteps
  <2>2. CASE commit.op = "HALT"
    <3>1. ~running
      BY <1>1, <1>13, <2>2, StatusFollows DEF halted, committed_status, running
    <3> QED
      BY <1>12, <1>13, <2>1, <2>2, <3>1
  <2>3. CASE commit.op # "HALT"
    <3>1. running
      BY <1>1, <1>13, <2>3, CommitFollows DEF running
    <3> QED
      BY <1>12, <1>13, <2>1, <2>3, <3>1
  <2> QED
    BY <2>2, <2>3
<1>14. CASE commit # None /\ is_store(commit.op)
  <2>1. UNCHANGED Sequential!vars
    BY <1>1, <1>14, StoreCommits
  <2>2. head_store_written /\ ~head_store_written'
    BY <1>4, <1>14, Committing
  <2>3. ~is_branch(commit.op) /\ commit.op # "HALT"
    BY <1>14 DEF is_store, StoreOps, is_branch, BranchOps
  <2>4. instructions_done' = instructions_done
    BY <1>1, <1>3, <1>6, <1>14, <2>2, <2>3 DEF count_if
  <2>5. prediction_count' = prediction_count
    BY <1>1, <1>5, <2>3 DEF count_if
  <2> QED
    BY <1>1, <2>1, <2>4, <2>5
<1> QED
  BY <1>10, <1>11, <1>13, <1>14

(* With what a program leaves behind when it is reported or loaded anew.   *)
ReportInv == RightInv /\ CommittedInRange /\ NoStoreBehindHalt

LEMMA RingWithoutStore == RingIsEmpty => ~head_store_written
BY DEF RingIsEmpty, head_store_written, ROB!front, ROB!empty

LEMMA IdleCodeStays == [CodeInFlightStays]_vars => CodeInFlightStays
BY DEF CodeInFlightStays, vars

LEMMA ProgramStepsKeepReport ==
  ASSUME FlowInv, ReportInv, [ProgramNext]_programVars, CodeInFlightStays
  PROVE  ReportInv'
<1>1. CASE LoadProgram
  <2>1. Load /\ committed_count' = 0
    BY <1>1 DEF LoadProgram
  <2>2. RightInv'
    BY <2>1, LoadIsRight
  <2>3. NoStoreBehindHalt'
    BY <2>1, LoadEmpties, RingWithoutStore, PTL DEF NoStoreBehindHalt
  <2> QED
    BY <2>1, <2>2, <2>3, ProgramAssumption DEF ReportInv, CommittedInRange
<1>2. CASE RunCycle
  <2>1. Cycle /\ committed_count' = count_if(counted, committed_count)
    BY <1>2 DEF RunCycle
  <2>2. RightInv'
    BY <1>2, <2>1, CycleKeepsRight DEF ReportInv
  <2>3. CommittedInRange'
    <3>1. counted \in BOOLEAN
      BY DEF counted
    <3> QED
      BY <2>1, <3>1, CountingUp DEF ReportInv, CommittedInRange
  <2>4. NoStoreBehindHalt'
    <3>1. status' = "Halted" => commit # None
      BY <2>1, StatusFollows DEF halted
    <3>2. head_store_written' => commit = None
      BY <2>1, WrittenFollows DEF ReportInv, RightInv, FinishedIsRight
    <3> QED
      BY <3>1, <3>2 DEF NoStoreBehindHalt
  <2> QED
    BY <2>2, <2>3, <2>4 DEF ReportInv
<1>3. CASE UNCHANGED <<vars, statistics>>
  <2>1. RightInv'
    BY <1>3, StutterIsRight DEF ReportInv
  <2>2. status' = status /\ (head_store_written' <=> head_store_written)
    BY <1>3 DEF vars, coreVars, head_store_written, ROB!front, ROB!empty
  <2> QED
    BY <1>3, <2>1, <2>2 DEF ReportInv, NoStoreBehindHalt, CommittedInRange, statistics
<1> QED
  BY <1>1, <1>2, <1>3 DEF ProgramNext, Exit, programVars

LEMMA ProgramStepsArePrinted ==
  ASSUME FlowInv, ReportInv, CountsInRange, [ProgramNext]_programVars,
         CodeInFlightStays, NoSetLessThan
  PROVE  \/ PrintedProgram!ProgramNext
         \/ UNCHANGED <<PrintedProgram!vars, instructions_done, prediction_count, output>>
<1>1. CASE LoadProgram
  <2>1. /\ Load /\ output = None /\ output' = output
        /\ committed_count' = 0 /\ prediction_count' = 0
    BY <1>1 DEF LoadProgram
  <2>2. PrintedProgram!load
    BY <2>1, LoadRefines, SameInterpreter
  <2>3. ~head_store_written'
    BY <2>1, LoadEmpties, RingWithoutStore, PTL
  <2> QED
    BY <2>1, <2>2, <2>3 DEF PrintedProgram!ProgramNext, PrintedProgram!LoadProgram
<1>2. CASE RunCycle
  BY <1>2, CycleIsPrinted, SameInterpreter DEF ReportInv, PrintedProgram!ProgramNext
<1>3. CASE Exit
  <2>1. /\ output = None /\ status \notin {"NotLoaded", "Running"}
        /\ output' = IF status = "Halted" THEN report ELSE failure
        /\ UNCHANGED vars /\ committed_count' = committed_count
        /\ prediction_count' = prediction_count
    BY <1>3 DEF Exit, statistics
  <2>2. UNCHANGED <<PrintedProgram!vars, instructions_done, prediction_count>>
    BY <2>1, StutterRefines, SameInterpreter
       DEF vars, instructions_done, head_store_written, ROB!front, ROB!empty, count_up
  <2>3. committed_status # "NotLoaded" /\ (committed_status = "Halted" <=> status = "Halted")
    BY <2>1 DEF committed_status
  <2>4. status = "Halted" => report = PrintedProgram!report
    <3>1. exit_code % ByteSize = exit_code
      BY FlowFacts, Sizes DEF TypeOK, Byte
    <3> QED
      BY <3>1 DEF report, PrintedProgram!report, ReportInv, NoStoreBehindHalt
  <2>5. failure = PrintedProgram!failure
    BY DEF failure, PrintedProgram!failure
  <2>6. output' = IF committed_status = "Halted" THEN PrintedProgram!report
                  ELSE PrintedProgram!failure
    BY <2>1, <2>3, <2>4, <2>5
  <2> QED
    BY <2>1, <2>2, <2>3, <2>6
       DEF PrintedProgram!ProgramNext, PrintedProgram!Report, instructions_done
<1>4. CASE UNCHANGED programVars
  BY <1>4, StutterRefines, SameInterpreter
     DEF programVars, statistics, vars, instructions_done, head_store_written,
         ROB!front, ROB!empty, count_up
<1> QED
  BY <1>1, <1>2, <1>3, <1>4 DEF ProgramNext

(* main.cpp:30-43: a result, when one is printed, is that of all of the    *)
(* last program that was loaded, with as many instructions and branches as *)
(* the interpreter executes: nothing from a wrong path or from before a    *)
(* reload is counted, and nothing on the right path is left out.  It does  *)
(* not say when main() may fail: Report allows a failure of any program    *)
(* that has not halted, because a load on a wrong path can cause one       *)
(* (load_store_queue.cpp:172).                                             *)
THEOREM WhatIsPrinted ==
  ProgramSpec /\ [][CodeInFlightStays]_vars /\ []NoSetLessThan
    => PrintsTheInterpretersResult
<1>1. ProgramInit => ReportInv /\ PrintedProgram!ProgramInit
  <2> SUFFICES ASSUME ProgramInit PROVE ReportInv /\ PrintedProgram!ProgramInit
    OBVIOUS
  <2>1. /\ Init /\ status = "NotLoaded" /\ committed_count = 0 /\ prediction_count = 0
        /\ output = None
    BY DEF ProgramInit, Init
  <2>2. ~head_store_written
    BY <2>1, InitEmpties, RingWithoutStore
  <2>3. PrintedProgram!Init
    BY <2>1, InitRefines, SameInterpreter
  <2>4. ReportInv
    BY <2>1, <2>2, InitIsRight, ProgramAssumption
       DEF ReportInv, CommittedInRange, NoStoreBehindHalt
  <2> QED
    BY <2>1, <2>2, <2>3, <2>4 DEF PrintedProgram!ProgramInit
<1>2. /\ FlowInv /\ ReportInv /\ CountsInRange /\ NoSetLessThan
      /\ [ProgramNext]_programVars /\ [CodeInFlightStays]_vars
      => ReportInv' /\
         [PrintedProgram!ProgramNext]_<<PrintedProgram!vars, instructions_done,
                                        prediction_count, output>>
  BY IdleCodeStays, ProgramStepsKeepReport, ProgramStepsArePrinted
<1>3. PrintedProgram!ProgramSpec <=>
        PrintedProgram!ProgramInit /\
        [][PrintedProgram!ProgramNext]_<<PrintedProgram!vars, instructions_done,
                                         prediction_count, output>>
  BY DEF PrintedProgram!ProgramSpec, instructions_done
<1> QED
  BY <1>1, <1>2, <1>3, ReloadsAreSafe, CountsStayInRange, PTL
  DEF ProgramSpec, PrintsTheInterpretersResult
=============================================================================
