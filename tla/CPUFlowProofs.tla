--------------------------- MODULE CPUFlowProofs ---------------------------
(***************************************************************************)
(* Proofs, for every program, predictor and size of the queues, that no    *)
(* instruction is lost or finished twice on its way through the CPU: where *)
(* each one is, what it waits for, and whose answer memory gives.          *)
(***************************************************************************)
EXTENDS CPUProofs, FiniteSetTheorems

(* The instruction the tag was given to is in flight and has no result. *)
Unfinished(tag) == ROB!matching_entry(tag, rob_cur) /\ ~rob_cur[tag.index].ready

operation_of(tag) == rob_cur[tag.index].op

(* What is in flight was valid, a HALT is finished from the start, and only *)
(* what writes a register has one to write.                                *)
FlightIsSound ==
  \A slot \in RobIndex : rob_cur[slot] # None =>
    /\ rob_cur[slot].op # "INVALID"
    /\ rob_cur[slot].op = "HALT" => rob_cur[slot].ready
    /\ rob_cur[slot].writes_rd => writes_rd(rob_cur[slot].op)

(* Going round the load/store queue from its head. *)
lsq_age(slot) == IF slot >= lsq_head THEN slot - lsq_head ELSE slot + LsqCapacity - lsq_head

LsqContiguous ==
  /\ \A slot \in LSQ!Slot : lsq_cur[slot] # None <=> lsq_age(slot) < lsq_count
  /\ lsq_tail = IF lsq_head + lsq_count >= LsqCapacity
                THEN lsq_head + lsq_count - LsqCapacity ELSE lsq_head + lsq_count

(* Whatever holds an instruction holds one that is in flight, unfinished,  *)
(* and of the kind that goes there ...                                     *)
StationsBacked ==
  \A slot \in RS!Slot : rs_cur[slot] # None =>
    /\ Unfinished(rs_cur[slot].destination)
    /\ rs_cur[slot].op = operation_of(rs_cur[slot].destination)
    /\ Issue!need_rs(rs_cur[slot].op)

QueueBacked ==
  \A slot \in LSQ!Slot : lsq_cur[slot] # None =>
    /\ Unfinished(lsq_cur[slot].destination)
    /\ lsq_cur[slot].op = operation_of(lsq_cur[slot].destination)
    /\ Issue!need_lsq(lsq_cur[slot].op)

ResultsBacked ==
  /\ fu_result # None =>
       Unfinished(fu_result.tag) /\ Issue!need_rs(operation_of(fu_result.tag))
  /\ lsq_load_result # None =>
       Unfinished(lsq_load_result.tag) /\ is_load(operation_of(lsq_load_result.tag))

(* ... no two hold the same one ... *)
StationsDiffer ==
  \A slot, other \in RS!Slot :
    (/\ rs_cur[slot] # None /\ rs_cur[other] # None
     /\ rs_cur[slot].destination = rs_cur[other].destination) => slot = other

QueueDiffers ==
  \A slot, other \in LSQ!Slot :
    (/\ lsq_cur[slot] # None /\ lsq_cur[other] # None
     /\ lsq_cur[slot].destination = lsq_cur[other].destination) => slot = other

ResultsDiffer ==
  /\ fu_result # None => \A slot \in RS!Slot :
       rs_cur[slot] # None => rs_cur[slot].destination # fu_result.tag
  /\ lsq_load_result # None => \A slot \in LSQ!Slot :
       lsq_cur[slot] # None => lsq_cur[slot].destination # lsq_load_result.tag

(* ... and nothing unfinished is held nowhere.                             *)
InStations(tag) ==
  \/ \E slot \in RS!Slot : rs_cur[slot] # None /\ rs_cur[slot].destination = tag
  \/ fu_result # None /\ fu_result.tag = tag

InQueue(tag) ==
  \/ \E slot \in LSQ!Slot : lsq_cur[slot] # None /\ lsq_cur[slot].destination = tag
  \/ lsq_load_result # None /\ lsq_load_result.tag = tag

NoneIsLost ==
  \A slot \in RobIndex : rob_cur[slot] # None /\ ~rob_cur[slot].ready =>
    IF Issue!need_rs(rob_cur[slot].op) THEN InStations(rob_cur[slot].tag)
    ELSE InQueue(rob_cur[slot].tag)

(* Only the head of the queue has asked memory, and what it asked for does *)
(* not change any more.                                                    *)
RequestsAreFinal ==
  \A slot \in LSQ!Slot : lsq_cur[slot] # None =>
    /\ is_store(lsq_cur[slot].op) \/ lsq_cur[slot].store_data.ready
    /\ lsq_cur[slot].request_sent =>
         /\ slot = lsq_head
         /\ lsq_cur[slot].address_ready /\ lsq_cur[slot].store_data.ready

asked == LSQ!front # None /\ LSQ!front.request_sent

(* It asked when there was room for its result, or when it was its turn.   *)
RequestsAreTimely ==
  asked =>
    /\ is_load(LSQ!front.op) => lsq_load_result = None
    /\ is_store(LSQ!front.op) =>
         ROB!front # None /\ ROB!front.tag = LSQ!front.destination

(* How often the slot of the tag has been given out again since. *)
drift(tag) ==
  (rob_generations[tag.index] + GenerationSize - tag.generation) % GenerationSize

Abandoned(tag) ==
  \A slot \in LSQ!Slot : lsq_cur[slot] # None => lsq_cur[slot].destination # tag

(* Memory serves the head of the queue, or a load that a flush removed so  *)
(* recently that its tag cannot have come round.                           *)
TransactionIsKnown ==
  transaction # None =>
    \/ asked /\ transaction.request = LSQ!make_memory_request(LSQ!front)
    \/ /\ ~transaction.request.is_store /\ Abandoned(transaction.request.tag)
       /\ drift(transaction.request.tag) + transaction.remaining_cycles < DataLatency

ResponseIsKnown ==
  response # None =>
    /\ transaction = None
    /\ \/ asked /\ LSQ!matching_response(response)
       \/ ~response.is_store /\ Abandoned(response.tag)

RequestsAreServed ==
  status = "Running" /\ asked =>
    \/ transaction # None /\ transaction.request = LSQ!make_memory_request(LSQ!front)
    \/ LSQ!matching_response(response)

PlacesInv ==
  /\ LsqContiguous
  /\ StationsBacked /\ QueueBacked /\ ResultsBacked
  /\ StationsDiffer /\ QueueDiffers /\ ResultsDiffer
  /\ NoneIsLost

MemoryInv ==
  /\ RequestsAreFinal /\ RequestsAreTimely
  /\ TransactionIsKnown /\ ResponseIsKnown /\ RequestsAreServed

FlowInv == IInv /\ FlightIsSound /\ PlacesInv /\ MemoryInv /\ WakeUpStillToCome

----------------------------------------------------------------------------
(* What the components do in a cycle, part by part.                        *)

(* An issued instruction goes to the queue of its kind, which has room.    *)
LEMMA IssuedParts ==
  ASSUME TypeOK, issue_outputs.rob # None
  PROVE  LET op == issue_outputs.rob.op
             tag == ROB!next_tag
             rs == issue_outputs.rs
             lsq == issue_outputs.lsq
         IN  /\ op # "INVALID" /\ tag \in RobTag
             /\ Issue!need_rs(op) => /\ rs # None /\ rs.destination = tag /\ rs.op = op
                                     /\ RS!available
             /\ ~Issue!need_rs(op) => rs = None
             /\ Issue!need_lsq(op) => /\ lsq # None /\ lsq.destination = tag /\ lsq.op = op
                                      /\ ~lsq.request_sent /\ ~LSQ!full
                                      /\ is_store(op) \/ lsq.store_data.ready
             /\ ~Issue!need_lsq(op) => lsq = None
<1> DEFINE answer == Issue!issue_status(packet, ROB!next_tag, ~ROB!full, RS!available, ~LSQ!full)
           op == packet.decoded.op
           tag == ROB!next_tag
           rs1 == Issue!resolve_register(packet.decoded.rs1, source_state(packet.decoded.rs1), broadcast)
           rs2 == Issue!resolve_register(packet.decoded.rs2, source_state(packet.decoded.rs2), broadcast)
<1>1. answer = "Issued"
  BY DEF issue_outputs, no_issue
<1>2. /\ packet # None /\ tag # None
      /\ issue_outputs = issued(packet, ROB!next_tag)
      /\ issue_outputs.rs \in Maybe(RS!RSEntry) /\ issue_outputs.lsq \in Maybe(LSQ!LSQEntry)
  BY IssueWires
<1>3. /\ op # "INVALID"
      /\ Issue!need_lsq(op) => ~LSQ!full
      /\ Issue!need_rs(op) => RS!available
  BY <1>1, <1>2 DEF Issue!issue_status
<1>4. issue_outputs.rob.op = op
  BY IssuedEntry, EntryOf
<1>5. /\ issue_outputs.rs = IF Issue!need_rs(op) THEN Issue!rs_entry(packet, tag, rs1, rs2)
                            ELSE None
      /\ issue_outputs.lsq = IF Issue!need_lsq(op) THEN Issue!lsq_entry(packet, tag, rs1, rs2)
                             ELSE None
  BY <1>2 DEF issued
<1>6. tag \in RobTag
  BY <1>2, Tag DEF Maybe
<1>7. packet \in Issue!DecodePacket
  BY IssueWires
<1> HIDE DEF rs1, rs2, tag
<1>8. /\ Issue!rs_entry(packet, tag, rs1, rs2).destination = tag
      /\ Issue!rs_entry(packet, tag, rs1, rs2).op = op
  BY DEF Issue!rs_entry
<1>9. /\ Issue!lsq_entry(packet, tag, rs1, rs2).destination = tag
      /\ Issue!lsq_entry(packet, tag, rs1, rs2).op = op
      /\ ~Issue!lsq_entry(packet, tag, rs1, rs2).request_sent
      /\ is_store(op) \/ Issue!lsq_entry(packet, tag, rs1, rs2).store_data.ready
  BY SameOperations DEF Issue!lsq_entry, Issue!ready_operand
<1>10. /\ Issue!need_rs(op) => issue_outputs.rs # None
       /\ Issue!need_lsq(op) => issue_outputs.lsq # None
  BY IssueWires
<1> HIDE DEF op
<1> QED
  BY <1>3, <1>4, <1>5, <1>6, <1>8, <1>9, <1>10 DEF tag

(* The bus takes one of the two results, or none. *)
LEMMA CycleOfTheBus ==
  ASSUME TypeOK
  PROVE  /\ load_granted => /\ ~flush /\ lsq_load_result # None
                            /\ completion = lsq_load_result /\ ~integer_granted
         /\ integer_granted => ~flush /\ fu_result # None /\ completion = fu_result
         /\ ~load_granted /\ ~integer_granted => completion = None
         /\ completion # None => /\ completion \in FUResult
                                 /\ broadcast # None /\ broadcast.tag = completion.tag
         /\ completion = None => broadcast = None
<1>1. /\ integer_result = IF flush THEN None ELSE fu_result
      /\ load_result = IF flush THEN None ELSE lsq_load_result
  BY DEF integer_result, load_result
<1>2. prefer_load \in BOOLEAN
  BY DEF TypeOK
<1>3. broadcast = IF completion = None THEN None
                  ELSE [tag |-> completion.tag, value |-> completion.result]
  BY DEF broadcast, CDB!broadcast, completion
<1>4. completion # None => completion \in FUResult /\ broadcast # None
  <2>1. completion # None => completion \in FUResult
    BY Bus DEF Maybe
  <2>2. \A c \in FUResult : [tag |-> c.tag, value |-> c.result] \in CDBMsg
    BY DEF FUResult, CDBMsg
  <2> QED
    BY <1>3, <2>1, <2>2, NothingAssumption
<1>5. /\ load_granted => load_result # None /\ completion = load_result /\ ~integer_granted
      /\ integer_granted => integer_result # None /\ completion = integer_result
      /\ ~load_granted /\ ~integer_granted => completion = None
  BY <1>2 DEF load_granted, integer_granted, completion, CDB!load_granted,
              CDB!integer_granted, CDB!completion
<1> QED
  BY <1>1, <1>3, <1>4, <1>5

(* A result or a finished store makes its instruction ready.               *)
LEMMA Readiness ==
  ASSUME TypeOK, NEW slot \in RobIndex, rob_cur[slot] # None,
         NEW result \in Maybe(FUResult), NEW stored \in Maybe(RobTag)
  PROVE  LET entries == ROB!apply_store_completion(ROB!apply_completion(rob_cur, result), stored)
             tag == rob_cur[slot].tag
         IN  tag.index = slot =>
             (entries[slot].ready <=>
                \/ rob_cur[slot].ready
                \/ result # None /\ result.tag = tag
                \/ stored # None /\ stored = tag /\ is_store(rob_cur[slot].op))
<1> DEFINE first == ROB!apply_completion(rob_cur, result)
           tag == rob_cur[slot].tag
<1> SUFFICES ASSUME tag.index = slot
             PROVE  ROB!apply_store_completion(first, stored)[slot].ready <=>
                      \/ rob_cur[slot].ready
                      \/ result # None /\ result.tag = tag
                      \/ stored # None /\ stored = tag /\ is_store(rob_cur[slot].op)
  OBVIOUS
<1>1. rob_cur \in Entries /\ rob_cur[slot] \in ROB!ROBEntry /\ tag \in RobTag
  BY SameRecords DEF TypeOK, RobTypeOK, Entries, Maybe
<1>2. /\ first \in Entries /\ first[slot] # None
      /\ first[slot].op = rob_cur[slot].op
      /\ first[slot].ready <=> rob_cur[slot].ready \/ (result # None /\ result.tag = tag)
  <2>1. CASE result = None \/ ~ROB!matching_entry(result.tag, rob_cur)
    <3>1. first = rob_cur
      BY <2>1 DEF ROB!apply_completion
    <3>2. ~(result # None /\ result.tag = tag)
      BY <1>1, <2>1, NoneAssumption DEF ROB!matching_entry
    <3> QED
      BY <1>1, <3>1, <3>2
  <2>2. CASE ~(result = None \/ ~ROB!matching_entry(result.tag, rob_cur))
    <3> DEFINE index == result.tag.index
               recorded == ROB!with_result(rob_cur[index], result)
    <3>1. /\ result \in FUResult /\ index \in RobIndex
          /\ rob_cur[index] # None /\ rob_cur[index].tag = result.tag
      BY <2>2 DEF Maybe, FUResult, RobTag, ROB!matching_entry
    <3>2. rob_cur[index] \in ROB!ROBEntry
      BY <1>1, <3>1 DEF Entries, Maybe
    <3>3. /\ recorded \in ROB!ROBEntry /\ recorded.op = rob_cur[index].op
      BY <3>1, <3>2, WithResult DEF SameInstruction
    <3>4. recorded.ready
      BY <3>1, <3>2 DEF ROB!with_result, ROB!ROBEntry
    <3>5. first = [rob_cur EXCEPT ![index] = recorded]
      BY <2>2 DEF ROB!apply_completion
    <3> HIDE DEF recorded
    <3>6. result.tag = tag <=> slot = index
      BY <3>1
    <3> QED
      BY <1>1, <2>2, <3>1, <3>3, <3>4, <3>5, <3>6, NothingAssumption DEF Entries, Maybe
  <2> QED
    BY <2>1, <2>2
<1> HIDE DEF first
<1>3. CASE ~ROB!matching_entry(stored, rob_cur) \/ ~is_store(first[stored.index].op)
  <2>1. ROB!apply_store_completion(first, stored) = first
    BY <1>3, SameOperations DEF ROB!apply_store_completion
  <2>2. ~(stored # None /\ stored = tag /\ is_store(rob_cur[slot].op))
    BY <1>1, <1>2, <1>3 DEF ROB!matching_entry
  <2> QED
    BY <1>2, <2>1, <2>2
<1>4. CASE ROB!matching_entry(stored, rob_cur) /\ is_store(first[stored.index].op)
  <2>1. /\ stored # None /\ stored.index \in RobIndex
        /\ rob_cur[stored.index].tag = stored
    BY <1>4 DEF ROB!matching_entry, Maybe, RobTag
  <2>2. ROB!apply_store_completion(first, stored) =
          [first EXCEPT ![stored.index] = [first[stored.index] EXCEPT !.ready = TRUE]]
    BY <1>4, SameOperations DEF ROB!apply_store_completion
  <2>3. first[slot] \in ROB!ROBEntry
    BY <1>2 DEF Entries, Maybe
  <2>4. stored = tag <=> stored.index = slot
    BY <2>1
  <2>5. CASE stored = tag
    BY <1>2, <1>4, <2>1, <2>2, <2>3, <2>4, <2>5 DEF Entries, ROB!ROBEntry
  <2>6. CASE stored # tag
    BY <1>2, <2>1, <2>2, <2>4, <2>6 DEF Entries
  <2> QED
    BY <2>5, <2>6
<1> QED
  BY <1>3, <1>4

(* The results of this cycle. *)
completed(tag) ==
  \/ completion # None /\ completion.tag = tag
  \/ store_completion # None /\ store_completion = tag /\ is_store(operation_of(tag))

(* An unfinished instruction is not committed: but for a flush it stays,   *)
(* and is unfinished until its result comes.                               *)
LEMMA UnfinishedStays ==
  ASSUME RingInv, Cycle, ~flush, NEW tag \in RobTag, Unfinished(tag)
  PROVE  /\ tag.index \in RobIndex /\ stays(tag.index)
         /\ rob_cur[tag.index] # None /\ rob_cur[tag.index].tag = tag
         /\ rob_cur'[tag.index] # None /\ rob_cur'[tag.index].tag = tag
         /\ operation_of(tag)' = operation_of(tag)
         /\ rob_cur'[tag.index].writes_rd = rob_cur[tag.index].writes_rd
         /\ rob_generations'[tag.index] = rob_generations[tag.index]
         /\ age(tag.index)' = age(tag.index) - retired
         /\ Unfinished(tag)' <=> ~completed(tag)
<1> DEFINE slot == tag.index
<1>1. /\ TypeOK /\ slot \in RobIndex
      /\ rob_cur[slot] # None /\ rob_cur[slot].tag = tag /\ ~rob_cur[slot].ready
  BY DEF RingInv, RobTag, Unfinished, ROB!matching_entry
<1>2. stays(slot)
  BY <1>1, Retiring DEF stays
<1>3. /\ rob_cur'[slot] # None /\ SameInstruction(rob_cur'[slot], rob_cur[slot])
      /\ rob_cur'[slot] = with_results[slot]
      /\ rob_generations'[slot] = rob_generations[slot]
      /\ age(slot)' = age(slot) - retired
  BY <1>1, <1>2, CycleOfTheRing
<1>4. with_results[slot].ready <=> completed(tag)
  BY <1>1, Readiness, Bus, QueueWires DEF with_results, completed, operation_of
<1>5. tag # None
  BY NoneAssumption
<1> HIDE DEF slot
<1>6. Unfinished(tag)' <=> rob_cur'[slot] # None /\ rob_cur'[slot].tag = tag /\ ~rob_cur'[slot].ready
  BY <1>5 DEF Unfinished, ROB!matching_entry, slot
<1> QED
  BY <1>1, <1>2, <1>3, <1>4, <1>6 DEF SameInstruction, operation_of, slot

(* The new instruction shares its tag with no unfinished one.              *)
LEMMA NewTagIsFree ==
  ASSUME RingInv, issue_outputs.rob # None, NEW tag \in RobTag, Unfinished(tag)
  PROVE  tag # ROB!next_tag
<1>1. TypeOK /\ RobContiguous
  BY DEF RingInv
<1>2. rob_cur[rob_tail] = None
  BY <1>1, AgeOfTheTail, IssuedEntry
<1>3. ROB!next_tag.index = rob_tail
  BY <1>1, IssuedEntry DEF ROB!next_tag
<1> QED
  BY <1>2, <1>3 DEF Unfinished, ROB!matching_entry

(* It is in flight from now on, unfinished unless it is a HALT.            *)
LEMMA NewIsUnfinished ==
  ASSUME RingInv, Cycle, ~flush, issue_outputs.rob # None,
         NEW tag, tag = ROB!next_tag
  PROVE  /\ tag \in RobTag /\ joins(tag.index)
         /\ rob_cur'[tag.index] = issue_outputs.rob
         /\ operation_of(tag)' = issue_outputs.rob.op
         /\ age(tag.index)' = rob_count - retired
         /\ Unfinished(tag)' <=> issue_outputs.rob.op # "HALT"
<1> DEFINE entry == issue_outputs.rob
           slot == tag.index
<1>1. /\ TypeOK /\ entry.tag = tag /\ tag \in RobTag /\ tag # None /\ slot \in RobIndex
      /\ slot = rob_tail
  <2>1. TypeOK /\ tag \in RobTag
    BY IssuedParts DEF RingInv
  <2>2. entry.tag = tag /\ entry.tag.index = rob_tail
    BY <2>1, IssuedEntry
  <2> QED
    BY <2>1, <2>2, NoneAssumption DEF RobTag
<1>2. entry.ready <=> entry.op = "HALT"
  BY <1>1, IssuedEntry, EntryOf
<1>3. joins(slot) /\ rob_cur'[slot] = entry /\ rob_cur'[slot] # None
      /\ age(slot)' = rob_count - retired
  BY <1>1, CycleOfTheRing DEF joins
<1> HIDE DEF entry, slot
<1>4. Unfinished(tag)' <=> rob_cur'[slot] # None /\ rob_cur'[slot].tag = tag /\ ~rob_cur'[slot].ready
  BY <1>1 DEF Unfinished, ROB!matching_entry, slot
<1> QED
  BY <1>1, <1>2, <1>3, <1>4 DEF entry, slot, operation_of

(* The station's slot whose entry goes to the functional unit, or None. *)
leaving == RS!dispatched(fu_available)

LEMMA CycleOfTheStations ==
  ASSUME TypeOK, Cycle
  PROVE  /\ flush => \A slot \in RS!Slot : rs_cur'[slot] = None
         /\ ~flush => \E place \in Maybe(RS!Slot) :
              /\ place # None <=> issue_outputs.rs # None
              /\ place # None => rs_cur[place] = None \/ place = leaving
              /\ \A slot \in RS!Slot :
                   rs_cur'[slot] = IF slot = place THEN issue_outputs.rs
                                   ELSE IF slot = leaving THEN None
                                   ELSE RS!wake_entry(rs_cur[slot], broadcast)
<1> DEFINE entry == issue_outputs.rs
           left == RS!remaining(broadcast, fu_available)
           free == RS!find_free_index(left)
<1>1. RS!apply(entry, broadcast, fu_available, flush)
  BY CycleParts
<1>2. entry \in Maybe(RS!RSEntry) /\ broadcast \in Maybe(CDBMsg) /\ fu_available \in BOOLEAN
  BY IssueWires, Bus DEF fu_available, FU!can_accept
<1>3. CASE flush
  BY <1>1, <1>3 DEF RS!apply, RS!no_entries
<1>4. CASE ~flush
  <2>1. rs_cur' = RS!insert(left, entry)
    BY <1>1, <1>4 DEF RS!apply
  <2>2. /\ left \in Stations
        /\ \A slot \in RS!Slot : left[slot] # None <=> rs_cur[slot] # None /\ slot # leaving
    BY <1>2, StationRemaining DEF leaving
  <2>3. \A slot \in RS!Slot :
          left[slot] = IF slot = leaving THEN None ELSE RS!wake_entry(rs_cur[slot], broadcast)
    BY DEF RS!remaining, leaving
  <2>4. entry # None => free # None
    <3>1. entry # None => RS!available
      <4>1. entry # None => issue_outputs.rob # None
        BY IssueWires
      <4> QED
        BY <4>1, IssuedParts
    <3>2. RS!available => \E slot \in RS!Slot : left[slot] = None
      BY <2>2 DEF RS!available
    <3> HIDE DEF left, entry
    <3> QED
      BY <3>1, <3>2, FreeIndex
  <2>5. free # None => free \in RS!Slot /\ left[free] = None
    BY FreeIndex
  <2>6. rs_cur' = IF entry = None \/ free = None THEN left ELSE [left EXCEPT ![free] = entry]
    BY <2>1 DEF RS!insert
  <2>7. None \notin RS!Slot
    BY NothingAssumption
  <2> HIDE DEF left, free, entry
  <2>8. CASE entry = None
    <3>1. None \in Maybe(RS!Slot)
      BY DEF Maybe
    <3>2. \A slot \in RS!Slot :
            rs_cur'[slot] = IF slot = None THEN entry
                            ELSE IF slot = leaving THEN None
                            ELSE RS!wake_entry(rs_cur[slot], broadcast)
      BY <2>3, <2>6, <2>7, <2>8
    <3> QED
      BY <1>4, <2>8, <3>1, <3>2 DEF entry
  <2>9. CASE entry # None
    <3>1. free \in Maybe(RS!Slot) /\ free \in RS!Slot
      BY <2>4, <2>5, <2>9 DEF Maybe
    <3>2. rs_cur[free] = None \/ free = leaving
      BY <2>2, <2>4, <2>5, <2>9
    <3>3. \A slot \in RS!Slot :
            rs_cur'[slot] = IF slot = free THEN entry
                            ELSE IF slot = leaving THEN None
                            ELSE RS!wake_entry(rs_cur[slot], broadcast)
      BY <2>2, <2>3, <2>4, <2>6, <2>9, <3>1 DEF Stations
    <3> QED
      BY <1>4, <2>4, <2>9, <3>1, <3>2, <3>3 DEF entry
  <2> QED
    BY <2>8, <2>9
<1> QED
  BY <1>3, <1>4

(* What the functional unit can execute. *)
LEMMA Executables ==
  \A op : FU!executable(op) <=> Issue!need_rs(op) /\ op # "INVALID"
<1>1. \A op : FU!is_load(op) = is_load(op) /\ FU!is_store(op) = is_store(op)
  BY DEF FU!is_load, FU!is_store, is_load, is_store, FU!LoadOps, FU!StoreOps, LoadOps, StoreOps
<1> QED
  BY <1>1, SameOperations DEF FU!executable, Issue!need_rs, Issue!need_lsq

LEMMA CycleOfTheUnit ==
  ASSUME TypeOK, Cycle
  PROVE  /\ flush => fu_result' = None
         /\ ~flush /\ leaving = None =>
              fu_result' = IF integer_granted THEN None ELSE fu_result
         /\ leaving # None =>
              /\ leaving \in RS!Slot /\ rs_cur[leaving] # None
              /\ rs_cur[leaving].lhs.ready /\ rs_cur[leaving].rhs.ready
              /\ fu_result = None \/ integer_granted
              /\ ~flush /\ Issue!need_rs(rs_cur[leaving].op) /\ rs_cur[leaving].op # "INVALID" =>
                   /\ fu_result' # None /\ fu_result'.tag = rs_cur[leaving].destination
                   /\ fu_result' = FU!execute_instruction(RS!make_execute(rs_cur[leaving]))
<1>1. FU!apply(dispatch, flush, integer_granted)
  BY CycleParts
<1>2. leaving # None => /\ leaving = RS!select_ready_index /\ fu_available
                        /\ leaving \in RS!Slot /\ rs_cur[leaving] # None
                        /\ rs_cur[leaving].lhs.ready /\ rs_cur[leaving].rhs.ready
  BY Selection DEF leaving, RS!dispatched, RS!ready_slots, Maybe
<1>3. fu_available <=> integer_granted \/ fu_result = None
  BY DEF fu_available, FU!can_accept
<1>4. CASE flush
  BY <1>1, <1>2, <1>3, <1>4 DEF FU!apply, FU!accepts
<1>5. CASE ~flush /\ leaving = None
  <2>1. dispatch = None \/ ~fu_available
    BY <1>5 DEF leaving, RS!dispatched, dispatch, RS!dispatch
  <2>2. ~FU!accepts(dispatch, flush, integer_granted)
    BY <1>3, <2>1 DEF FU!accepts, FU!can_accept
  <2> QED
    BY <1>1, <1>5, <2>2 DEF FU!apply
<1>6. CASE ~flush /\ leaving # None
  <2> DEFINE entry == rs_cur[leaving]
  <2>1. entry \in RS!RSEntry
    BY <1>2, <1>6 DEF TypeOK, RsTypeOK, Maybe
  <2>2. dispatch = RS!make_execute(entry)
    BY <1>2, <1>6, NothingAssumption DEF dispatch, RS!dispatch
  <2>3. dispatch \in Execute
    <3>1. /\ entry.op \in OP /\ entry.destination \in RobTag /\ entry.immediate \in Word
          /\ entry.pc \in Word /\ entry.lhs.value \in Word /\ entry.rhs.value \in Word
      BY <2>1, SameRecords DEF Operand
    <3> HIDE DEF entry
    <3> QED
      BY <2>2, <3>1, SameRecords DEF RS!make_execute
  <2> HIDE DEF entry
  <2>4. dispatch # None /\ dispatch.op = entry.op /\ dispatch.tag = entry.destination
    BY <2>2, <2>3, NothingAssumption DEF RS!make_execute
  <2>5. Issue!need_rs(entry.op) /\ entry.op # "INVALID" =>
          FU!accepts(dispatch, flush, integer_granted)
    BY <1>2, <1>3, <1>6, <2>4, Executables DEF FU!accepts, FU!can_accept
  <2>6. FU!accepts(dispatch, flush, integer_granted) =>
          /\ fu_result' # None /\ fu_result'.tag = entry.destination
          /\ fu_result' = FU!execute_instruction(RS!make_execute(entry))
    <3>1. /\ FU!execute_instruction(dispatch) \in FUResult
          /\ FU!execute_instruction(dispatch).tag = dispatch.tag
      BY <2>3, Execution DEF FU!execute_instruction
    <3> QED
      BY <1>1, <2>2, <2>4, <3>1, NothingAssumption DEF FU!apply
  <2> QED
    BY <1>2, <1>3, <1>6, <2>5, <2>6 DEF entry
<1> QED
  BY <1>4, <1>5, <1>6

(* The slot behind another in the load/store queue. *)
LEMMA QueueFollowing ==
  ASSUME NEW slot \in LSQ!Slot
  PROVE  /\ LSQ!following(slot) \in LSQ!Slot
         /\ LSQ!following(slot) = IF slot + 1 = LsqCapacity THEN 0 ELSE slot + 1
<1>1. LsqCapacity \in Nat /\ LsqCapacity > 0
  BY CPUAssumption
<1>2. slot \in Nat /\ slot + 1 <= LsqCapacity
  BY <1>1 DEF LSQ!Slot
<1>3. CASE slot + 1 = LsqCapacity
  <2>1. (slot + 1) % LsqCapacity = 0
    BY <1>1, <1>2, <1>3
  <2> QED
    BY <2>1, <1>1, <1>3 DEF LSQ!following, LSQ!Slot
<1>4. CASE slot + 1 # LsqCapacity
  <2>1. (slot + 1) % LsqCapacity = slot + 1
    BY <1>1, <1>2, <1>4
  <2> QED
    BY <2>1, <1>1, <1>2, <1>4 DEF LSQ!following, LSQ!Slot
<1> QED
  BY <1>3, <1>4


(* An address is the base and the offset, once the base is known.          *)
AddressIsComputed(new) ==
  new.base.ready /\ new.address = LSQ!add(new.base.value, new.immediate)

(* A waiting entry through a cycle: it may be woken, its address computed, *)
(* and its request sent.                                                   *)
Continues(new, old, sent) ==
  /\ new.op = old.op /\ new.destination = old.destination /\ new.immediate = old.immediate
  /\ new.base = LSQ!wake_operand(old.base, broadcast)
  /\ new.store_data = IF is_store(old.op) THEN LSQ!wake_operand(old.store_data, broadcast)
                      ELSE old.store_data
  /\ new.request_sent <=> old.request_sent \/ sent
  /\ old.address_ready => new.address_ready /\ new.address = old.address
  /\ new.address_ready /\ ~old.address_ready => AddressIsComputed(new)

LEMMA EntryContinues ==
  ASSUME TypeOK, NEW entry \in LSQ!LSQEntry, NEW sent \in BOOLEAN
  PROVE  LET woken == LSQ!wake_entry(entry, broadcast)
             served == IF sent THEN LSQ!mark_request_sent(woken) ELSE woken
         IN  /\ LSQ!addressed(served) # None
             /\ Continues(LSQ!addressed(served), entry, sent)
<1> DEFINE woken == LSQ!wake_entry(entry, broadcast)
           served == IF sent THEN LSQ!mark_request_sent(woken) ELSE woken
<1>1. broadcast \in Maybe(CDBMsg)
  BY Bus
<1>2. /\ woken \in LSQ!LSQEntry /\ woken.op = entry.op /\ woken.destination = entry.destination
      /\ woken.base = LSQ!wake_operand(entry.base, broadcast)
      /\ woken.store_data = IF is_store(entry.op)
                            THEN LSQ!wake_operand(entry.store_data, broadcast)
                            ELSE entry.store_data
      /\ woken.request_sent = entry.request_sent /\ woken.immediate = entry.immediate
      /\ woken.address_ready = entry.address_ready /\ woken.address = entry.address
  <2>1. woken \in LSQ!LSQEntry
    BY <1>1, QueueWakes
  <2>2. entry # None
    BY NothingAssumption
  <2> QED
    BY <2>1, <2>2, SameOperations DEF LSQ!wake_entry, LSQ!LSQEntry
<1> HIDE DEF woken
<1>3. /\ served \in LSQ!LSQEntry /\ served.op = woken.op
      /\ served.destination = woken.destination /\ served.base = woken.base
      /\ served.store_data = woken.store_data /\ served.immediate = woken.immediate
      /\ served.request_sent <=> woken.request_sent \/ sent
      /\ served.address_ready = woken.address_ready /\ served.address = woken.address
  BY <1>2 DEF LSQ!mark_request_sent, LSQ!LSQEntry
<1> HIDE DEF served
<1> DEFINE new == LSQ!addressed(served)
<1>4. new \in LSQ!LSQEntry /\ new # None
  BY <1>1, <1>3, QueueWakes, NothingAssumption
<1>5. /\ new.op = served.op /\ new.destination = served.destination
      /\ new.base = served.base /\ new.store_data = served.store_data
      /\ new.request_sent = served.request_sent
      /\ new.immediate = served.immediate
      /\ served.address_ready => new.address_ready /\ new.address = served.address
      /\ new.address_ready /\ ~served.address_ready =>
           new.base.ready /\ new.address = LSQ!add(new.base.value, new.immediate)
  BY <1>3 DEF LSQ!addressed, LSQ!LSQEntry
<1> HIDE DEF new
<1> QED
  BY <1>2, <1>3, <1>4, <1>5 DEF Continues, AddressIsComputed, woken, served, new

(* A new entry, its address computed at once when its base is known. *)
LEMMA EntryStarts ==
  ASSUME NEW entry \in LSQ!LSQEntry
  PROVE  LET new == LSQ!addressed(entry)
         IN  /\ new # None /\ new.op = entry.op /\ new.destination = entry.destination
             /\ new.base = entry.base /\ new.store_data = entry.store_data
             /\ new.request_sent = entry.request_sent /\ new.immediate = entry.immediate
             /\ new.address_ready /\ ~entry.address_ready => AddressIsComputed(new)
<1>1. LSQ!addressed(entry) # None
  <2>1. None \in Maybe(CDBMsg)
    BY DEF Maybe
  <2> QED
    BY <2>1, QueueWakes, NothingAssumption
<1>2. entry # None
  BY NothingAssumption
<1> QED
  BY <1>1, <1>2 DEF AddressIsComputed, LSQ!addressed, LSQ!LSQEntry

(* The head of the queue has its answer and leaves; others stay; one joins. *)
removed == ~flush /\ LSQ!remove_head(response, FALSE)
sends == memory_request # None

stays_queued(slot) ==
  /\ lsq_cur[slot] # None /\ ~flush
  /\ removed => slot # lsq_head

joins_queue(slot) == slot = lsq_tail /\ ~flush /\ issue_outputs.lsq # None

LEMMA HeadOfTheQueue ==
  ASSUME TypeOK, LsqContiguous
  PROVE  /\ lsq_head \in LSQ!Slot /\ lsq_tail \in LSQ!Slot
         /\ LSQ!front # None <=> lsq_cur[lsq_head] # None
         /\ LSQ!front # None => LSQ!front = lsq_cur[lsq_head] /\ LSQ!front \in LSQ!LSQEntry
         /\ removed => LSQ!front # None /\ response # None
         /\ sends => LSQ!front # None /\ memory_request = LSQ!make_memory_request(LSQ!front)
         /\ issue_outputs.lsq # None => /\ LSQ!accepts(issue_outputs.lsq)
                                        /\ lsq_cur[lsq_tail] = None
<1>1. /\ LsqCapacity \in Nat /\ LsqCapacity > 0
      /\ lsq_head \in LSQ!Slot /\ lsq_tail \in LSQ!Slot
      /\ lsq_head \in Nat /\ lsq_head < LsqCapacity
      /\ lsq_count \in Nat /\ lsq_count <= LsqCapacity
  BY CPUAssumption DEF TypeOK, LsqTypeOK, LSQ!Slot
<1>2. LSQ!front # None <=> lsq_cur[lsq_head] # None
  <2>1. lsq_age(lsq_head) = 0
    BY <1>1 DEF lsq_age
  <2>2. lsq_cur[lsq_head] # None <=> 0 < lsq_count
    BY <1>1, <2>1 DEF LsqContiguous
  <2> QED
    BY <1>1, <2>2 DEF LSQ!front, LSQ!empty
<1>3. LSQ!front # None => LSQ!front = lsq_cur[lsq_head] /\ LSQ!front \in LSQ!LSQEntry
  BY QueueHead DEF Maybe
<1>4. removed => LSQ!front # None /\ response # None
  BY DEF removed, LSQ!remove_head, LSQ!matching_response
<1>5. sends => LSQ!front # None /\ memory_request = LSQ!make_memory_request(LSQ!front)
  BY DEF sends, memory_request, LSQ!memory_request
<1>6. issue_outputs.lsq # None => LSQ!accepts(issue_outputs.lsq)
  <2>1. issue_outputs.lsq # None => issue_outputs.rob # None
    BY IssueWires
  <2> QED
    BY <2>1, IssuedParts DEF LSQ!accepts
<1>7. ~LSQ!full => lsq_cur[lsq_tail] = None
  <2>1. ~LSQ!full => lsq_age(lsq_tail) = lsq_count
    BY <1>1 DEF lsq_age, LSQ!full, LsqContiguous, LSQ!Slot
  <2> QED
    BY <1>1, <2>1 DEF LsqContiguous
<1> QED
  BY <1>1, <1>2, <1>3, <1>4, <1>5, <1>6, <1>7 DEF LSQ!accepts

LEMMA CycleOfTheQueue ==
  ASSUME TypeOK, LsqContiguous, Cycle
  PROVE  /\ \A slot \in LSQ!Slot :
              lsq_cur'[slot] # None <=> stays_queued(slot) \/ joins_queue(slot)
         /\ \A slot \in LSQ!Slot : stays_queued(slot) =>
              Continues(lsq_cur'[slot], lsq_cur[slot], slot = lsq_head /\ sends)
         /\ \A slot \in LSQ!Slot : joins_queue(slot) =>
              lsq_cur'[slot] = LSQ!addressed(issue_outputs.lsq)
         /\ flush => lsq_load_result' = None
         /\ ~flush => /\ lsq_head' = IF removed THEN LSQ!following(lsq_head) ELSE lsq_head
                      /\ lsq_load_result' =
                           LET loaded == LSQ!completed_load_result(response, FALSE)
                           IN  IF loaded # None THEN loaded
                               ELSE IF load_granted THEN None ELSE lsq_load_result
         /\ LsqContiguous'
<1> DEFINE entry == issue_outputs.lsq
           entries == [slot \in LSQ!Slot |->
                         LSQ!served(slot, broadcast, LSQ!remove_head(response, FALSE),
                                    memory_request # None)]
           inserted == IF LSQ!accepts(entry) THEN [entries EXCEPT ![lsq_tail] = entry]
                       ELSE entries
           loaded == LSQ!completed_load_result(response, FALSE)
<1>1. /\ LsqCapacity \in Nat /\ LsqCapacity > 0
      /\ lsq_head \in LSQ!Slot /\ lsq_tail \in LSQ!Slot
      /\ lsq_count \in Nat /\ lsq_count <= LsqCapacity
      /\ lsq_cur \in [LSQ!Slot -> Maybe(LSQ!LSQEntry)]
  BY CPUAssumption DEF TypeOK, LsqTypeOK
<1>2. /\ entry \in Maybe(LSQ!LSQEntry)
      /\ LSQ!apply(entry, broadcast, response, memory_request, load_granted, flush)
  BY IssueWires, CycleParts
<1>3. CASE flush
  <2>1. LSQ!clear
    BY <1>2, <1>3 DEF LSQ!apply
  <2>2. LsqContiguous'
    BY <1>1, <2>1 DEF LSQ!clear, LSQ!no_entries, LsqContiguous, lsq_age, LSQ!Slot
  <2> QED
    BY <1>3, <2>1, <2>2 DEF LSQ!clear, LSQ!no_entries, stays_queued, joins_queue
<1>4. CASE ~flush
  <2>1. /\ lsq_cur' = [slot \in LSQ!Slot |-> LSQ!addressed(inserted[slot])]
        /\ lsq_head' = IF removed THEN LSQ!following(lsq_head) ELSE lsq_head
        /\ lsq_tail' = IF LSQ!accepts(entry) THEN LSQ!following(lsq_tail) ELSE lsq_tail
        /\ lsq_count' = (lsq_count + (IF LSQ!accepts(entry) THEN 1 ELSE 0))
                          - (IF removed THEN 1 ELSE 0)
        /\ lsq_load_result' = IF loaded # None THEN loaded
                              ELSE IF load_granted THEN None ELSE lsq_load_result
    <3>1. LSQ!advance(entry, broadcast, response, memory_request, load_granted)
      BY <1>2, <1>4 DEF LSQ!apply
    <3> QED
      BY <1>4, <3>1 DEF LSQ!advance, removed
  <2>2. LSQ!accepts(entry) <=> entry # None
    BY HeadOfTheQueue DEF LSQ!accepts
  <2>3. ASSUME NEW slot \in LSQ!Slot
        PROVE  entries[slot] = IF slot = lsq_head /\ removed THEN None
                               ELSE IF slot = lsq_head /\ sends
                               THEN LSQ!mark_request_sent(LSQ!wake_entry(lsq_cur[slot], broadcast))
                               ELSE LSQ!wake_entry(lsq_cur[slot], broadcast)
    <3>1. LSQ!remove_head(response, FALSE) \in BOOLEAN /\ (memory_request # None) \in BOOLEAN
      BY DEF LSQ!remove_head
    <3> QED
      BY <1>4, <3>1, Served DEF removed, sends
  <2>4. ASSUME NEW slot \in LSQ!Slot, lsq_cur[slot] = None
        PROVE  entries[slot] = None
    BY <2>3, <2>4, HeadOfTheQueue DEF LSQ!wake_entry
  <2>5. \A slot \in LSQ!Slot :
          inserted[slot] = IF entry # None /\ slot = lsq_tail THEN entry ELSE entries[slot]
    <3> HIDE DEF entry
    <3> QED
      BY <1>1, <2>2
  <2>6. ASSUME NEW slot \in LSQ!Slot, stays_queued(slot)
        PROVE  /\ lsq_cur'[slot] # None
               /\ Continues(lsq_cur'[slot], lsq_cur[slot], slot = lsq_head /\ sends)
    <3> DEFINE old == lsq_cur[slot]
               woken == LSQ!wake_entry(old, broadcast)
               sent == slot = lsq_head /\ sends
    <3>1. old \in LSQ!LSQEntry /\ old # None /\ sent \in BOOLEAN
      BY <1>1, <2>6 DEF stays_queued, Maybe
    <3>2. entries[slot] = IF sent THEN LSQ!mark_request_sent(woken) ELSE woken
      BY <2>3, <2>6 DEF stays_queued
    <3>3. slot # lsq_tail \/ entry = None
      BY <2>6, HeadOfTheQueue DEF stays_queued
    <3> HIDE DEF old, woken, sent, entries, entry
    <3>4. inserted[slot] = entries[slot]
      BY <2>2, <2>5, <3>3
    <3>5. lsq_cur'[slot] = LSQ!addressed(entries[slot])
      BY <2>1, <3>4
    <3>6. /\ LSQ!addressed(entries[slot]) # None
          /\ Continues(LSQ!addressed(entries[slot]), old, sent)
      BY <3>1, <3>2, EntryContinues DEF woken
    <3> QED
      BY <3>5, <3>6 DEF old, sent
  <2>7. ASSUME NEW slot \in LSQ!Slot, joins_queue(slot)
        PROVE  lsq_cur'[slot] = LSQ!addressed(entry) /\ lsq_cur'[slot] # None
    <3>1. slot = lsq_tail /\ entry # None /\ entry \in LSQ!LSQEntry
      BY <1>2, <2>7 DEF joins_queue, Maybe
    <3> HIDE DEF entries, entry
    <3>2. inserted[slot] = entry
      BY <2>2, <2>5, <3>1
    <3> QED
      BY <2>1, <3>1, <3>2, EntryStarts
  <2>8. ASSUME NEW slot \in LSQ!Slot, ~stays_queued(slot), ~joins_queue(slot)
        PROVE  lsq_cur'[slot] = None
    <3>1. entries[slot] = None
      BY <1>4, <2>3, <2>4, <2>8 DEF stays_queued
    <3>2. slot # lsq_tail \/ entry = None
      BY <1>4, <2>8 DEF joins_queue
    <3> HIDE DEF entries, entry
    <3>3. inserted[slot] = None
      BY <2>2, <2>5, <3>1, <3>2
    <3>4. LSQ!addressed(None) = None
      BY DEF LSQ!addressed
    <3> QED
      BY <2>1, <3>3, <3>4
  <2>9. LsqContiguous'
    <3>1. removed => lsq_count > 0
      BY <1>1, QueueHead, HeadOfTheQueue
    <3>2. entry # None => lsq_count < LsqCapacity
      BY <1>1, <2>2 DEF LSQ!accepts, LSQ!full
    <3>3. /\ lsq_head' = IF ~removed THEN lsq_head
                         ELSE IF lsq_head + 1 = LsqCapacity THEN 0 ELSE lsq_head + 1
          /\ lsq_tail' = IF entry = None THEN lsq_tail
                         ELSE IF lsq_tail + 1 = LsqCapacity THEN 0 ELSE lsq_tail + 1
          /\ lsq_count' = (lsq_count + (IF entry = None THEN 0 ELSE 1))
                            - (IF removed THEN 1 ELSE 0)
      BY <1>1, <2>1, <2>2, QueueFollowing
    <3>4. lsq_tail = IF lsq_head + lsq_count >= LsqCapacity
                     THEN lsq_head + lsq_count - LsqCapacity ELSE lsq_head + lsq_count
      BY DEF LsqContiguous
    <3>5. lsq_tail' = IF lsq_head' + lsq_count' >= LsqCapacity
                      THEN lsq_head' + lsq_count' - LsqCapacity ELSE lsq_head' + lsq_count'
      <4> HIDE DEF entry
      <4> QED
        BY <1>1, <3>1, <3>2, <3>3, <3>4 DEF LSQ!Slot
    <3>6. ASSUME NEW slot \in LSQ!Slot
          PROVE  lsq_cur'[slot] # None <=> lsq_age(slot)' < lsq_count'
      <4>1. lsq_cur'[slot] # None <=>
              \/ lsq_cur[slot] # None /\ (removed => slot # lsq_head)
              \/ slot = lsq_tail /\ entry # None
        BY <1>4, <2>6, <2>7, <2>8 DEF stays_queued, joins_queue
      <4>2. lsq_cur[slot] # None <=> lsq_age(slot) < lsq_count
        BY DEF LsqContiguous
      <4>3. lsq_age(slot)' = IF slot >= lsq_head' THEN slot - lsq_head'
                             ELSE slot + LsqCapacity - lsq_head'
        BY DEF lsq_age
      <4>4. slot \in Nat /\ slot < LsqCapacity /\ lsq_head \in Nat /\ lsq_head < LsqCapacity
        BY <1>1 DEF LSQ!Slot
      <4> HIDE DEF entry
      <4> QED
        BY <1>1, <3>1, <3>2, <3>3, <3>4, <4>1, <4>2, <4>3, <4>4 DEF lsq_age
    <3> QED
      BY <3>5, <3>6 DEF LsqContiguous
  <2> HIDE DEF loaded
  <2> QED
    BY <1>4, <2>1, <2>6, <2>7, <2>8, <2>9 DEF loaded
<1> QED
  BY <1>3, <1>4

(* Memory: a request is taken when the port is free and answered later.    *)
LEMMA CycleOfMemory ==
  ASSUME TypeOK, Cycle
  PROVE  /\ sends => transaction = None /\ ~flush
         /\ transaction # None => transaction.request \in MEM!DataMemoryRequest
                                  /\ transaction.remaining_cycles \in 1 .. DataLatency
         /\ sends => /\ transaction' # None /\ transaction'.request = memory_request
                     /\ transaction'.remaining_cycles = DataLatency
         /\ ~sends /\ transaction' # None =>
              /\ transaction # None /\ transaction.remaining_cycles # 1
              /\ transaction'.request = transaction.request
              /\ transaction'.remaining_cycles = transaction.remaining_cycles - 1
         /\ transaction # None /\ transaction.remaining_cycles # 1 => transaction' # None
         /\ response' # None <=> transaction # None /\ transaction.remaining_cycles = 1
         /\ response' # None => /\ transaction' = None
                                /\ response'.tag = transaction.request.tag
                                /\ response'.is_store = transaction.request.is_store
<1>1. MEM!apply(memory_request) /\ memory_request \in Maybe(MEM!DataMemoryRequest)
  BY CycleParts, QueueWires
<1>2. sends => transaction = None /\ ~flush
  BY DEF sends, memory_request, LSQ!memory_request, MEM!data_port_available
<1>3. transaction # None => transaction \in MEM!DataTransaction
  BY DEF TypeOK, Maybe
<1>4. transaction # None => transaction.request \in MEM!DataMemoryRequest
                            /\ transaction.remaining_cycles \in 1 .. DataLatency
  BY <1>3 DEF MEM!DataTransaction
<1>5. MEM!accepts(memory_request) <=> sends
  BY <1>2 DEF MEM!accepts, sends
<1>6. DataLatency \in Nat \ {0}
  BY CPUAssumption
<1>7. transaction' = IF sends THEN [request |-> memory_request, remaining_cycles |-> DataLatency]
                     ELSE IF transaction = None \/ transaction.remaining_cycles = 1 THEN None
                     ELSE [transaction EXCEPT !.remaining_cycles = @ - 1]
  <2>1. transaction' = MEM!next_transaction(memory_request)
    BY <1>1 DEF MEM!apply
  <2> QED
    BY <1>2, <1>5, <2>1 DEF MEM!next_transaction, MEM!completes
<1>8. CASE sends
  <2>1. [request |-> memory_request, remaining_cycles |-> DataLatency] \in MEM!DataTransaction
    BY <1>1, <1>6, <1>8 DEF MEM!DataTransaction, sends, Maybe
  <2> DEFINE taken == [request |-> memory_request, remaining_cycles |-> DataLatency]
  <2>2. taken # None /\ taken.request = memory_request /\ taken.remaining_cycles = DataLatency
    BY <2>1, NothingAssumption
  <2>3. transaction' = taken
    BY <1>7, <1>8
  <2> HIDE DEF taken
  <2>4. response' = None
    BY <1>1, <1>2, <1>8 DEF MEM!apply, MEM!completes
  <2> QED
    BY <1>2, <1>8, <2>2, <2>3, <2>4
<1>9. CASE ~sends
  <2>1. transaction # None /\ transaction.remaining_cycles # 1 =>
          /\ transaction' # None /\ transaction'.request = transaction.request
          /\ transaction'.remaining_cycles = transaction.remaining_cycles - 1
    <3> SUFFICES ASSUME transaction # None, transaction.remaining_cycles # 1
                 PROVE  /\ transaction' # None /\ transaction'.request = transaction.request
                        /\ transaction'.remaining_cycles = transaction.remaining_cycles - 1
      OBVIOUS
    <3>1. transaction' = [transaction EXCEPT !.remaining_cycles = @ - 1]
      BY <1>7, <1>9
    <3>2. transaction' \in MEM!DataTransaction
      BY <1>3, <1>4, <1>6, <3>1 DEF MEM!DataTransaction
    <3> QED
      BY <1>3, <3>1, <3>2, NothingAssumption DEF MEM!DataTransaction
  <2>2. response' = IF transaction # None /\ transaction.remaining_cycles = 1
                    THEN MEM!response_to(transaction.request) ELSE None
    BY <1>1 DEF MEM!apply, MEM!completes
  <2>3. response' \in Maybe(MEM!DataMemoryResponse)
    BY <1>1, MemoryStep
  <2> DEFINE answer == MEM!response_to(transaction.request)
  <2>4. answer.tag = transaction.request.tag /\ answer.is_store = transaction.request.is_store
    BY DEF MEM!response_to
  <2>5. transaction # None => answer \in MEM!DataMemoryResponse
    <3> SUFFICES ASSUME transaction # None PROVE answer \in MEM!DataMemoryResponse
      OBVIOUS
    <3> DEFINE request == transaction.request
               bytes == MEM!read(memory, request.address, request.width)
               within == MEM!in_bounds(request.address, request.width)
    <3>1. request \in MEM!DataMemoryRequest
      BY <1>4
    <3>2. /\ request.tag \in RobTag /\ request.is_store \in BOOLEAN
          /\ bytes \in Maybe(Word) /\ within \in BOOLEAN
      BY <3>1, SameRecords, Reading DEF TypeOK
    <3>3. answer = [tag |-> request.tag,
                    value |-> IF request.is_store \/ bytes = None THEN 0 ELSE bytes,
                    is_store |-> request.is_store, success |-> within]
      BY Zenon DEF MEM!response_to
    <3> HIDE DEF answer, request, bytes, within
    <3> QED
      BY <3>2, <3>3, SameRecords, Sizes DEF Maybe
  <2> HIDE DEF answer
  <2> QED
    BY <1>2, <1>4, <1>7, <1>9, <2>1, <2>2, <2>4, <2>5, NothingAssumption DEF answer
<1> QED
  BY <1>8, <1>9

----------------------------------------------------------------------------
(* Where a result comes from, and where its instruction was.               *)

(* Every operation is of one kind. *)
LEMMA Kinds ==
  \A op : /\ is_load(op) => ~is_store(op) /\ Issue!need_lsq(op) /\ ~Issue!need_rs(op)
          /\ is_store(op) => Issue!need_lsq(op) /\ ~Issue!need_rs(op) /\ ~writes_rd(op)
          /\ Issue!need_lsq(op) => is_load(op) \/ is_store(op)
          /\ Issue!need_lsq(op) <=> op # "HALT" /\ ~Issue!need_rs(op)
          /\ Issue!need_rs(op) => op # "HALT"
BY SameOperations DEF Issue!need_lsq, Issue!need_rs, is_load, is_store, writes_rd,
   LoadOps, StoreOps, RegisterOps, ImmediateOps, UpperOps, JumpOps

(* An answer is to a request, and a finished store was the head.           *)
LEMMA AnswersWereAsked ==
  ASSUME TypeOK, LsqContiguous, ResponseIsKnown
  PROVE  /\ LSQ!matching_response(response) => asked
         /\ removed => asked /\ lsq_cur[lsq_head] # None
                       /\ LSQ!front = lsq_cur[lsq_head] /\ transaction = None
         /\ store_completion # None =>
              /\ removed /\ is_store(LSQ!front.op)
              /\ store_completion = LSQ!front.destination
<1>1. LSQ!matching_response(response) => asked
  <2> SUFFICES ASSUME LSQ!matching_response(response) PROVE asked
    OBVIOUS
  <2>1. /\ LSQ!front # None /\ response # None /\ LSQ!front.destination = response.tag
    BY DEF LSQ!matching_response
  <2>2. lsq_head \in LSQ!Slot /\ lsq_cur[lsq_head] # None /\ LSQ!front = lsq_cur[lsq_head]
    BY <2>1, HeadOfTheQueue
  <2>3. ~Abandoned(response.tag)
    BY <2>1, <2>2 DEF Abandoned
  <2> QED
    BY <2>1, <2>3 DEF ResponseIsKnown
<1>2. removed => LSQ!matching_response(response) /\ response # None /\ LSQ!front # None
  BY DEF removed, LSQ!remove_head, LSQ!matching_response
<1>3. removed => lsq_cur[lsq_head] # None /\ LSQ!front = lsq_cur[lsq_head]
  BY <1>2, HeadOfTheQueue
<1>4. store_completion # None => /\ removed /\ is_store(LSQ!front.op)
                                 /\ store_completion = LSQ!front.destination
  BY SameOperations DEF store_completion, LSQ!store_completion, removed, LSQ!remove_head
<1> QED
  BY <1>1, <1>2, <1>3, <1>4 DEF ResponseIsKnown

(* A result on the bus is the functional unit's or a load's; a store's is  *)
(* memory's answer to the head of the queue.                               *)
LEMMA Completions ==
  ASSUME TypeOK, LsqContiguous, QueueBacked, ResultsBacked, ResponseIsKnown, NEW tag, completed(tag)
  PROVE  \/ /\ integer_granted /\ fu_result # None /\ fu_result.tag = tag
            /\ Issue!need_rs(operation_of(tag))
         \/ /\ load_granted /\ lsq_load_result # None /\ lsq_load_result.tag = tag
            /\ is_load(operation_of(tag))
         \/ /\ removed /\ is_store(operation_of(tag)) /\ LSQ!front = lsq_cur[lsq_head]
            /\ lsq_cur[lsq_head] # None /\ lsq_cur[lsq_head].destination = tag
<1>1. CASE completion # None /\ completion.tag = tag
  BY <1>1, CycleOfTheBus DEF ResultsBacked
<1>2. CASE store_completion # None /\ store_completion = tag /\ is_store(operation_of(tag))
  BY <1>2, AnswersWereAsked
<1> QED
  BY <1>1, <1>2 DEF completed

LEMMA CycleKeepsFlight == RingInv /\ FlightIsSound /\ Cycle => FlightIsSound'
<1> SUFFICES ASSUME RingInv, FlightIsSound, Cycle, NEW slot \in RobIndex, rob_cur'[slot] # None
             PROVE  /\ rob_cur'[slot].op # "INVALID"
                    /\ rob_cur'[slot].op = "HALT" => rob_cur'[slot].ready
                    /\ rob_cur'[slot].writes_rd => writes_rd(rob_cur'[slot].op)
  BY DEF FlightIsSound
<1>1. CASE stays(slot)
  <2>1. /\ rob_cur[slot] # None /\ SameInstruction(rob_cur'[slot], rob_cur[slot])
        /\ rob_cur'[slot] = with_results[slot]
    BY <1>1, CycleOfTheRing DEF stays
  <2>2. rob_cur[slot].tag.index = slot /\ TypeOK
    BY <2>1, TagTellsSlot DEF RingInv
  <2>3. rob_cur[slot].ready => rob_cur'[slot].ready
    BY <2>1, <2>2, Readiness, Bus, QueueWires DEF with_results
  <2> QED
    BY <2>1, <2>3 DEF SameInstruction, FlightIsSound
<1>2. CASE joins(slot)
  <2>1. rob_cur'[slot] = issue_outputs.rob /\ issue_outputs.rob # None /\ TypeOK
    BY <1>2, CycleOfTheRing DEF joins, RingInv
  <2>2. issue_outputs.rob.op # "INVALID"
    BY <2>1, IssuedParts
  <2> QED
    BY <2>1, <2>2, IssuedEntry, EntryOf
<1> QED
  BY <1>1, <1>2, CycleOfTheRing

----------------------------------------------------------------------------
(* Every place holds unfinished instructions, no two the same one.         *)

(* A waiting entry of the reservation station through a cycle. *)
Wakes(new, old) ==
  /\ new.op = old.op /\ new.destination = old.destination
  /\ new.immediate = old.immediate /\ new.pc = old.pc
  /\ new.lhs = RS!wake_operand(old.lhs, broadcast)
  /\ new.rhs = RS!wake_operand(old.rhs, broadcast)

(* The issued entry's place, and everything else. *)
LEMMA StationsFollow ==
  ASSUME TypeOK, Cycle, ~flush
  PROVE  \E place \in Maybe(RS!Slot) :
           /\ place # None <=> issue_outputs.rs # None
           /\ place # None => rs_cur[place] = None \/ place = leaving
           /\ \A slot \in RS!Slot :
                /\ slot = place => rs_cur'[slot] = issue_outputs.rs /\ rs_cur'[slot] # None
                /\ slot # place =>
                     (rs_cur'[slot] # None <=> rs_cur[slot] # None /\ slot # leaving)
                /\ slot # place /\ rs_cur'[slot] # None => Wakes(rs_cur'[slot], rs_cur[slot])
<1>1. PICK place \in Maybe(RS!Slot) :
        /\ place # None <=> issue_outputs.rs # None
        /\ place # None => rs_cur[place] = None \/ place = leaving
        /\ \A slot \in RS!Slot :
             rs_cur'[slot] = IF slot = place THEN issue_outputs.rs
                             ELSE IF slot = leaving THEN None
                             ELSE RS!wake_entry(rs_cur[slot], broadcast)
  BY CycleOfTheStations
<1>2. ASSUME NEW slot \in RS!Slot
      PROVE  /\ rs_cur[slot] = None => RS!wake_entry(rs_cur[slot], broadcast) = None
             /\ rs_cur[slot] # None =>
                  /\ RS!wake_entry(rs_cur[slot], broadcast) # None
                  /\ Wakes(RS!wake_entry(rs_cur[slot], broadcast), rs_cur[slot])
  <2> DEFINE old == rs_cur[slot]
             woken == RS!wake_entry(old, broadcast)
  <2>1. old = None => woken = None
    BY DEF RS!wake_entry
  <2>2. ASSUME old # None
        PROVE  woken # None /\ Wakes(woken, old)
    <3>1. old \in RS!RSEntry /\ broadcast \in Maybe(CDBMsg)
      BY <2>2, Bus DEF TypeOK, RsTypeOK, Maybe
    <3>2. woken \in RS!RSEntry
      BY <3>1, StationWakes
    <3> QED
      BY <2>2, <3>1, <3>2, NothingAssumption DEF RS!wake_entry, Wakes, RS!RSEntry
  <2> QED
    BY <2>1, <2>2
<1>3. ASSUME NEW slot \in RS!Slot
      PROVE  /\ slot = place => rs_cur'[slot] = issue_outputs.rs /\ rs_cur'[slot] # None
             /\ slot # place =>
                  (rs_cur'[slot] # None <=> rs_cur[slot] # None /\ slot # leaving)
             /\ slot # place /\ rs_cur'[slot] # None => Wakes(rs_cur'[slot], rs_cur[slot])
  <2>1. slot # None
    BY NothingAssumption
  <2>2. CASE slot = place
    BY <1>1, <2>1, <2>2
  <2>3. CASE slot # place /\ slot = leaving
    BY <1>1, <2>3
  <2>4. CASE slot # place /\ slot # leaving
    BY <1>1, <1>2, <2>4
  <2> QED
    BY <2>2, <2>3, <2>4
<1> QED
  BY <1>1, <1>3

(* The facts most steps need. *)
LEMMA FlowFacts ==
  ASSUME FlowInv
  PROVE  /\ RingInv /\ TypeOK /\ LsqContiguous /\ ResponseIsKnown
         /\ QueueBacked /\ StationsBacked /\ ResultsBacked
         /\ StationsDiffer /\ QueueDiffers /\ ResultsDiffer
         /\ FlightIsSound
BY DEF FlowInv, IInv, RingInv, PlacesInv, MemoryInv

LEMMA CycleKeepsStations == FlowInv /\ Cycle => StationsBacked' /\ StationsDiffer'
<1> SUFFICES ASSUME FlowInv, Cycle PROVE StationsBacked' /\ StationsDiffer'
  OBVIOUS
<1>1. CASE flush
  BY <1>1, CycleOfTheStations, FlowFacts DEF StationsBacked, StationsDiffer
<1>2. CASE ~flush
  <2>1. PICK place \in Maybe(RS!Slot) :
          /\ place # None <=> issue_outputs.rs # None
          /\ place # None => rs_cur[place] = None \/ place = leaving
          /\ \A slot \in RS!Slot :
               /\ slot = place => rs_cur'[slot] = issue_outputs.rs /\ rs_cur'[slot] # None
               /\ slot # place =>
                    (rs_cur'[slot] # None <=> rs_cur[slot] # None /\ slot # leaving)
               /\ slot # place /\ rs_cur'[slot] # None => Wakes(rs_cur'[slot], rs_cur[slot])
    BY <1>2, StationsFollow, FlowFacts
  <2>2. ASSUME NEW slot \in RS!Slot, slot # place, rs_cur'[slot] # None
        PROVE  /\ rs_cur[slot] # None
               /\ rs_cur[slot].destination \in RobTag /\ Unfinished(rs_cur[slot].destination)
               /\ rs_cur'[slot].destination = rs_cur[slot].destination
               /\ Unfinished(rs_cur[slot].destination)'
               /\ rs_cur'[slot].op = operation_of(rs_cur[slot].destination)'
               /\ Issue!need_rs(rs_cur'[slot].op)
    <3>1. rs_cur[slot] # None /\ Wakes(rs_cur'[slot], rs_cur[slot])
      BY <2>1, <2>2
    <3> PICK tag \in RobTag : tag = rs_cur[slot].destination
      BY <3>1, FlowFacts, SameRecords DEF TypeOK, RsTypeOK, Maybe
    <3>2. /\ Unfinished(tag) /\ rs_cur[slot].op = operation_of(tag)
          /\ Issue!need_rs(rs_cur[slot].op)
      BY <3>1, FlowFacts DEF StationsBacked
    <3>3. ~completed(tag)
      <4>1. ~(fu_result # None /\ fu_result.tag = tag)
        BY <3>1, FlowFacts DEF ResultsDiffer
      <4> QED
        BY <3>2, <4>1, FlowFacts, Completions, Kinds
    <3>4. Unfinished(tag)' /\ operation_of(tag)' = operation_of(tag)
      BY <1>2, <3>2, <3>3, FlowFacts, UnfinishedStays
    <3>5. rs_cur'[slot].destination = tag /\ rs_cur'[slot].op = rs_cur[slot].op
      BY <3>1 DEF Wakes
    <3> QED
      BY <3>1, <3>2, <3>4, <3>5
  <2>3. ASSUME NEW slot \in RS!Slot, slot = place
        PROVE  /\ issue_outputs.rob # None
               /\ rs_cur'[slot].destination = ROB!next_tag
               /\ Unfinished(rs_cur[slot].destination)'
               /\ rs_cur'[slot].op = operation_of(rs_cur[slot].destination)'
               /\ Issue!need_rs(rs_cur'[slot].op)
    <3>1. issue_outputs.rs # None /\ issue_outputs.rob # None
      BY <2>1, <2>3, FlowFacts, IssueWires
    <3> PICK tag \in RobTag : tag = ROB!next_tag
      BY <3>1, FlowFacts, IssuedParts
    <3>2. /\ rs_cur'[slot].destination = tag /\ rs_cur'[slot].op = issue_outputs.rob.op
          /\ Issue!need_rs(rs_cur'[slot].op)
      BY <2>1, <2>3, <3>1, FlowFacts, IssuedParts
    <3>3. Unfinished(tag)' /\ operation_of(tag)' = issue_outputs.rob.op
      BY <1>2, <3>1, <3>2, FlowFacts, NewIsUnfinished, Kinds
    <3> QED
      BY <3>1, <3>2, <3>3
  <2>4. StationsBacked'
    BY <2>2, <2>3 DEF StationsBacked
  <2>5. StationsDiffer'
    <3> SUFFICES ASSUME NEW slot \in RS!Slot, NEW other \in RS!Slot,
                        rs_cur'[slot] # None, rs_cur'[other] # None,
                        rs_cur'[slot].destination = rs_cur'[other].destination
                 PROVE  slot = other
      BY DEF StationsDiffer
    <3>1. CASE slot # place /\ other # place
      BY <2>2, <3>1, FlowFacts DEF StationsDiffer
    <3>2. CASE slot = place /\ other # place
      BY <2>2, <2>3, <3>2, FlowFacts, NewTagIsFree
    <3>3. CASE slot # place /\ other = place
      BY <2>2, <2>3, <3>3, FlowFacts, NewTagIsFree
    <3> QED
      BY <3>1, <3>2, <3>3
  <2> QED
    BY <2>4, <2>5
<1> QED
  BY <1>1, <1>2

(* Where an entry of the load/store queue was, or that it is new. *)
LEMMA QueueFollows ==
  ASSUME FlowInv, Cycle, NEW slot \in LSQ!Slot, lsq_cur'[slot] # None
  PROVE  /\ ~flush
         /\ \/ /\ stays_queued(slot) /\ lsq_cur[slot] # None /\ lsq_cur[slot] \in LSQ!LSQEntry
               /\ Continues(lsq_cur'[slot], lsq_cur[slot], slot = lsq_head /\ sends)
            \/ /\ joins_queue(slot) /\ issue_outputs.lsq # None /\ issue_outputs.rob # None
               /\ issue_outputs.lsq \in LSQ!LSQEntry
               /\ lsq_cur'[slot].destination = ROB!next_tag
               /\ lsq_cur'[slot].op = issue_outputs.rob.op
               /\ lsq_cur'[slot].base = issue_outputs.lsq.base
               /\ lsq_cur'[slot].store_data = issue_outputs.lsq.store_data
               /\ ~lsq_cur'[slot].request_sent
               /\ Issue!need_lsq(issue_outputs.rob.op)
               /\ is_store(issue_outputs.rob.op) \/ issue_outputs.lsq.store_data.ready
<1>1. TypeOK /\ LsqContiguous
  BY FlowFacts
<1>2. stays_queued(slot) \/ joins_queue(slot)
  BY <1>1, CycleOfTheQueue
<1>3. CASE stays_queued(slot)
  BY <1>1, <1>3, CycleOfTheQueue DEF stays_queued, TypeOK, LsqTypeOK, Maybe
<1>4. CASE joins_queue(slot)
  <2>1. /\ issue_outputs.lsq # None /\ issue_outputs.rob # None
        /\ issue_outputs.lsq \in LSQ!LSQEntry
    BY <1>1, <1>4, IssueWires DEF joins_queue, Maybe
  <2>2. lsq_cur'[slot] = LSQ!addressed(issue_outputs.lsq)
    BY <1>1, <1>4, CycleOfTheQueue
  <2>3. /\ issue_outputs.lsq.destination = ROB!next_tag
        /\ issue_outputs.lsq.op = issue_outputs.rob.op /\ ~issue_outputs.lsq.request_sent
        /\ Issue!need_lsq(issue_outputs.rob.op)
        /\ is_store(issue_outputs.rob.op) \/ issue_outputs.lsq.store_data.ready
    BY <1>1, <2>1, IssuedParts
  <2> QED
    BY <1>4, <2>1, <2>2, <2>3, EntryStarts DEF joins_queue
<1> QED
  BY <1>2, <1>3, <1>4

LEMMA CycleKeepsQueue == FlowInv /\ Cycle => QueueBacked' /\ QueueDiffers'
<1> SUFFICES ASSUME FlowInv, Cycle PROVE QueueBacked' /\ QueueDiffers'
  OBVIOUS
<1>1. ASSUME NEW slot \in LSQ!Slot, lsq_cur'[slot] # None, stays_queued(slot)
      PROVE  /\ lsq_cur[slot] # None
             /\ lsq_cur[slot].destination \in RobTag /\ Unfinished(lsq_cur[slot].destination)
             /\ lsq_cur'[slot].destination = lsq_cur[slot].destination
             /\ Unfinished(lsq_cur[slot].destination)'
             /\ lsq_cur'[slot].op = operation_of(lsq_cur[slot].destination)'
             /\ Issue!need_lsq(lsq_cur'[slot].op)
  <2>1. /\ ~flush /\ lsq_cur[slot] # None /\ lsq_cur[slot] \in LSQ!LSQEntry
        /\ lsq_cur'[slot].op = lsq_cur[slot].op
        /\ lsq_cur'[slot].destination = lsq_cur[slot].destination
        /\ removed => slot # lsq_head
    BY <1>1, FlowFacts, CycleOfTheQueue
       DEF Continues, stays_queued, TypeOK, LsqTypeOK, Maybe
  <2> PICK tag \in RobTag : tag = lsq_cur[slot].destination
    BY <2>1, SameRecords
  <2>2. /\ Unfinished(tag) /\ lsq_cur[slot].op = operation_of(tag)
        /\ Issue!need_lsq(lsq_cur[slot].op)
    BY <2>1, FlowFacts DEF QueueBacked
  <2>3. ~completed(tag)
    <3>1. ~(lsq_load_result # None /\ lsq_load_result.tag = tag)
      BY <2>1, FlowFacts DEF ResultsDiffer
    <3>2. ~(removed /\ lsq_cur[lsq_head] # None /\ lsq_cur[lsq_head].destination = tag)
      BY <2>1, FlowFacts, HeadOfTheQueue DEF QueueDiffers
    <3> QED
      BY <2>2, <3>1, <3>2, FlowFacts, Completions, Kinds
  <2>4. Unfinished(tag)' /\ operation_of(tag)' = operation_of(tag)
    BY <2>1, <2>2, <2>3, FlowFacts, UnfinishedStays
  <2> QED
    BY <2>1, <2>2, <2>4
<1>2. ASSUME NEW slot \in LSQ!Slot, lsq_cur'[slot] # None, ~stays_queued(slot)
      PROVE  /\ issue_outputs.rob # None /\ slot = lsq_tail
             /\ lsq_cur'[slot].destination = ROB!next_tag
             /\ Unfinished(lsq_cur[slot].destination)'
             /\ lsq_cur'[slot].op = operation_of(lsq_cur[slot].destination)'
             /\ Issue!need_lsq(lsq_cur'[slot].op)
  <2>1. /\ ~flush /\ slot = lsq_tail /\ issue_outputs.rob # None
        /\ lsq_cur'[slot].destination = ROB!next_tag
        /\ lsq_cur'[slot].op = issue_outputs.rob.op
        /\ Issue!need_lsq(lsq_cur'[slot].op)
    BY <1>2, QueueFollows DEF joins_queue
  <2> PICK tag \in RobTag : tag = ROB!next_tag
    BY <2>1, FlowFacts, IssuedParts
  <2>2. Unfinished(tag)' /\ operation_of(tag)' = issue_outputs.rob.op
    BY <2>1, FlowFacts, NewIsUnfinished, Kinds
  <2> QED
    BY <2>1, <2>2
<1>3. QueueBacked'
  BY <1>1, <1>2 DEF QueueBacked
<1>4. QueueDiffers'
  <2> SUFFICES ASSUME NEW slot \in LSQ!Slot, NEW other \in LSQ!Slot,
                      lsq_cur'[slot] # None, lsq_cur'[other] # None,
                      lsq_cur'[slot].destination = lsq_cur'[other].destination
               PROVE  slot = other
    BY DEF QueueDiffers
  <2>1. CASE stays_queued(slot) /\ stays_queued(other)
    BY <1>1, <2>1, FlowFacts DEF QueueDiffers
  <2>2. CASE ~stays_queued(slot) /\ stays_queued(other)
    BY <1>1, <1>2, <2>2, FlowFacts, NewTagIsFree
  <2>3. CASE stays_queued(slot) /\ ~stays_queued(other)
    BY <1>1, <1>2, <2>3, FlowFacts, NewTagIsFree
  <2>4. CASE ~stays_queued(slot) /\ ~stays_queued(other)
    BY <1>2, <2>4
  <2> QED
    BY <2>1, <2>2, <2>3, <2>4
<1> QED
  BY <1>3, <1>4

(* What the two result buffers hold after a cycle. *)
LEMMA ResultsFollow ==
  ASSUME FlowInv, Cycle
  PROVE  /\ fu_result' # None =>
              \/ /\ ~flush /\ leaving \in RS!Slot /\ rs_cur[leaving] # None
                 /\ fu_result'.tag = rs_cur[leaving].destination
                 /\ fu_result' = FU!execute_instruction(RS!make_execute(rs_cur[leaving]))
                 /\ rs_cur[leaving].lhs.ready /\ rs_cur[leaving].rhs.ready
              \/ /\ ~flush /\ leaving = None /\ fu_result # None /\ ~integer_granted
                 /\ fu_result' = fu_result
         /\ lsq_load_result' # None =>
              \/ /\ removed /\ lsq_cur[lsq_head] # None /\ is_load(lsq_cur[lsq_head].op)
                 /\ lsq_load_result'.tag = lsq_cur[lsq_head].destination
              \/ /\ ~flush /\ lsq_load_result # None /\ ~load_granted
                 /\ lsq_load_result' = lsq_load_result
         /\ removed /\ is_load(lsq_cur[lsq_head].op) =>
              /\ lsq_load_result' # None
              /\ lsq_load_result'.tag = lsq_cur[lsq_head].destination
              /\ lsq_load_result'.result =
                   LSQ!extend_load_result(lsq_cur[lsq_head].op, response.value)
              /\ ~lsq_load_result'.has_control_result
         /\ ~flush /\ lsq_load_result # None /\ ~load_granted =>
              lsq_load_result' = lsq_load_result
<1> DEFINE loaded == LSQ!completed_load_result(response, FALSE)
<1>1. TypeOK /\ LsqContiguous /\ ResponseIsKnown
  BY FlowFacts
<1>2. leaving # None => /\ leaving \in RS!Slot /\ rs_cur[leaving] # None
                        /\ Issue!need_rs(rs_cur[leaving].op) /\ rs_cur[leaving].op # "INVALID"
  <2>1. leaving # None => leaving \in RS!Slot /\ rs_cur[leaving] # None
    BY <1>1, CycleOfTheUnit
  <2>2. ASSUME leaving # None
        PROVE  Issue!need_rs(rs_cur[leaving].op) /\ rs_cur[leaving].op # "INVALID"
    <3> PICK slot \in RS!Slot : slot = leaving
      BY <2>1, <2>2
    <3>1. /\ Unfinished(rs_cur[slot].destination)
          /\ rs_cur[slot].op = operation_of(rs_cur[slot].destination)
          /\ Issue!need_rs(rs_cur[slot].op)
      BY <2>1, <2>2, FlowFacts DEF StationsBacked
    <3>2. rs_cur[slot].destination \in RobTag
      BY <2>1, <2>2, FlowFacts, SameRecords DEF TypeOK, RsTypeOK, Maybe
    <3>3. operation_of(rs_cur[slot].destination) # "INVALID"
      BY <3>1, <3>2, FlowFacts
         DEF FlightIsSound, Unfinished, ROB!matching_entry, operation_of, RobTag
    <3> QED
      BY <3>1, <3>3
  <2> QED
    BY <2>1, <2>2
<1>3. fu_result' # None =>
        \/ /\ ~flush /\ leaving \in RS!Slot /\ rs_cur[leaving] # None
           /\ fu_result'.tag = rs_cur[leaving].destination
           /\ fu_result' = FU!execute_instruction(RS!make_execute(rs_cur[leaving]))
           /\ rs_cur[leaving].lhs.ready /\ rs_cur[leaving].rhs.ready
        \/ /\ ~flush /\ leaving = None /\ fu_result # None /\ ~integer_granted
           /\ fu_result' = fu_result
  BY <1>1, <1>2, CycleOfTheUnit
<1>4. /\ loaded # None => /\ removed \/ flush
                          /\ LSQ!front # None
                          /\ is_load(LSQ!front.op) /\ loaded.tag = LSQ!front.destination
      /\ removed /\ is_load(LSQ!front.op) =>
           /\ loaded # None /\ loaded.tag = LSQ!front.destination
           /\ loaded.result = LSQ!extend_load_result(LSQ!front.op, response.value)
           /\ ~loaded.has_control_result
  <2>1. ASSUME LSQ!remove_head(response, FALSE), is_load(LSQ!front.op)
        PROVE  /\ loaded # None /\ loaded.tag = LSQ!front.destination
               /\ loaded.result = LSQ!extend_load_result(LSQ!front.op, response.value)
               /\ ~loaded.has_control_result
    <3> DEFINE value == LSQ!extend_load_result(LSQ!front.op, response.value)
               result == [tag |-> LSQ!front.destination, result |-> value,
                          actual_next_pc |-> 0, branch_taken |-> FALSE,
                          has_control_result |-> FALSE]
    <3>1. loaded = result
      BY <2>1, SameOperations DEF LSQ!completed_load_result
    <3>2. LSQ!front \in LSQ!LSQEntry /\ response \in MEM!DataMemoryResponse
      BY <1>1, <2>1, QueueHead DEF LSQ!remove_head, LSQ!matching_response, TypeOK, Maybe
    <3>3. LSQ!front.destination \in RobTag /\ response.value \in Word
      BY <3>2, SameRecords
    <3>4. value \in Word
      BY <3>3, Extension
    <3> HIDE DEF value
    <3>5. /\ result \in FUResult /\ result.tag = LSQ!front.destination
          /\ result.result = value /\ ~result.has_control_result
      BY <3>3, <3>4, Sizes DEF FUResult, Address
    <3> HIDE DEF result, loaded
    <3> QED
      BY <3>1, <3>5, NothingAssumption DEF value
  <2>2. loaded # None => LSQ!remove_head(response, FALSE) /\ is_load(LSQ!front.op)
    BY SameOperations DEF LSQ!completed_load_result
  <2>3. LSQ!remove_head(response, FALSE) => LSQ!front # None
    BY DEF LSQ!remove_head, LSQ!matching_response
  <2> HIDE DEF loaded
  <2> QED
    BY <2>1, <2>2, <2>3 DEF removed
<1>5. removed => lsq_cur[lsq_head] # None /\ LSQ!front = lsq_cur[lsq_head] /\ ~flush
  BY <1>1, AnswersWereAsked DEF removed
<1>6. /\ flush => lsq_load_result' = None
      /\ ~flush => lsq_load_result' = IF loaded # None THEN loaded
                                      ELSE IF load_granted THEN None ELSE lsq_load_result
  BY <1>1, CycleOfTheQueue
<1>7. removed /\ is_load(LSQ!front.op) => lsq_load_result = None
  BY <1>1, AnswersWereAsked DEF FlowInv, MemoryInv, RequestsAreTimely
<1> HIDE DEF loaded
<1> QED
  BY <1>3, <1>4, <1>5, <1>6, <1>7

LEMMA CycleKeepsResults == FlowInv /\ Cycle => ResultsBacked' /\ ResultsDiffer'
<1> SUFFICES ASSUME FlowInv, Cycle PROVE ResultsBacked' /\ ResultsDiffer'
  OBVIOUS
<1>1. ASSUME fu_result' # None
      PROVE  \E tag \in RobTag :
               /\ fu_result'.tag = tag
               /\ ~flush /\ Unfinished(tag) /\ Issue!need_rs(operation_of(tag)) /\ ~completed(tag)
               /\ \A slot \in RS!Slot :
                    rs_cur[slot] # None /\ slot # leaving => rs_cur[slot].destination # tag
  <2>1. CASE /\ ~flush /\ leaving \in RS!Slot /\ rs_cur[leaving] # None
             /\ fu_result'.tag = rs_cur[leaving].destination
    <3> PICK old \in RS!Slot : old = leaving
      BY <2>1
    <3> PICK tag \in RobTag : tag = rs_cur[old].destination
      BY <2>1, FlowFacts, SameRecords DEF TypeOK, RsTypeOK, Maybe
    <3>1. Unfinished(tag) /\ Issue!need_rs(operation_of(tag))
      BY <2>1, FlowFacts DEF StationsBacked
    <3>2. ~(fu_result # None /\ fu_result.tag = tag)
      BY <2>1, FlowFacts DEF ResultsDiffer
    <3>3. ~completed(tag)
      BY <3>1, <3>2, FlowFacts, Completions, Kinds
    <3>4. \A slot \in RS!Slot :
            rs_cur[slot] # None /\ slot # old => rs_cur[slot].destination # tag
      BY <2>1, FlowFacts DEF StationsDiffer
    <3> QED
      BY <2>1, <3>1, <3>3, <3>4
  <2>2. CASE /\ ~flush /\ leaving = None /\ fu_result # None /\ ~integer_granted
             /\ fu_result' = fu_result
    <3> PICK tag \in RobTag : tag = fu_result.tag
      BY <2>2, FlowFacts DEF TypeOK, Maybe, FUResult
    <3>1. Unfinished(tag) /\ Issue!need_rs(operation_of(tag))
      BY <2>2, FlowFacts DEF ResultsBacked
    <3>2. ~completed(tag)
      BY <2>2, <3>1, FlowFacts, Completions, Kinds
    <3>3. \A slot \in RS!Slot : rs_cur[slot] # None => rs_cur[slot].destination # tag
      BY <2>2, FlowFacts DEF ResultsDiffer
    <3> QED
      BY <2>2, <3>1, <3>2, <3>3
  <2> QED
    BY <1>1, <2>1, <2>2, ResultsFollow
<1>2. ASSUME lsq_load_result' # None
      PROVE  \E tag \in RobTag :
               /\ lsq_load_result'.tag = tag
               /\ ~flush /\ Unfinished(tag) /\ is_load(operation_of(tag)) /\ ~completed(tag)
               /\ \A slot \in LSQ!Slot :
                    lsq_cur[slot] # None /\ (removed => slot # lsq_head) =>
                      lsq_cur[slot].destination # tag
  <2>1. CASE /\ removed /\ lsq_cur[lsq_head] # None /\ is_load(lsq_cur[lsq_head].op)
             /\ lsq_load_result'.tag = lsq_cur[lsq_head].destination
    <3> PICK old \in LSQ!Slot : old = lsq_head
      BY FlowFacts, HeadOfTheQueue
    <3> PICK tag \in RobTag : tag = lsq_cur[old].destination
      BY <2>1, FlowFacts, SameRecords DEF TypeOK, LsqTypeOK, Maybe
    <3>1. Unfinished(tag) /\ is_load(operation_of(tag))
      BY <2>1, FlowFacts DEF QueueBacked
    <3>2. ~(lsq_load_result # None /\ lsq_load_result.tag = tag)
      BY <2>1, FlowFacts DEF ResultsDiffer
    <3>3. ~completed(tag)
      BY <3>1, <3>2, FlowFacts, Completions, Kinds
    <3>4. \A slot \in LSQ!Slot :
            lsq_cur[slot] # None /\ slot # old => lsq_cur[slot].destination # tag
      BY <2>1, FlowFacts DEF QueueDiffers
    <3> QED
      BY <2>1, <3>1, <3>3, <3>4 DEF removed
  <2>2. CASE /\ ~flush /\ lsq_load_result # None /\ ~load_granted
             /\ lsq_load_result' = lsq_load_result
    <3> PICK tag \in RobTag : tag = lsq_load_result.tag
      BY <2>2, FlowFacts DEF TypeOK, LsqTypeOK, Maybe, FUResult
    <3>1. Unfinished(tag) /\ is_load(operation_of(tag))
      BY <2>2, FlowFacts DEF ResultsBacked
    <3>2. ~completed(tag)
      BY <2>2, <3>1, FlowFacts, Completions, Kinds
    <3>3. \A slot \in LSQ!Slot : lsq_cur[slot] # None => lsq_cur[slot].destination # tag
      BY <2>2, FlowFacts DEF ResultsDiffer
    <3> QED
      BY <2>2, <3>1, <3>2, <3>3
  <2> QED
    BY <1>2, <2>1, <2>2, ResultsFollow
<1>3. ASSUME fu_result' # None
      PROVE  /\ Unfinished(fu_result.tag)' /\ Issue!need_rs(operation_of(fu_result.tag)')
             /\ \A slot \in RS!Slot :
                  rs_cur'[slot] # None => rs_cur'[slot].destination # fu_result'.tag
  <2>1. PICK tag \in RobTag :
               /\ fu_result'.tag = tag
               /\ ~flush /\ Unfinished(tag) /\ Issue!need_rs(operation_of(tag)) /\ ~completed(tag)
               /\ \A slot \in RS!Slot :
                    rs_cur[slot] # None /\ slot # leaving => rs_cur[slot].destination # tag
    BY <1>1, <1>3
  <2>2. Unfinished(tag)' /\ operation_of(tag)' = operation_of(tag)
    BY <2>1, FlowFacts, UnfinishedStays
  <2>3. PICK place \in Maybe(RS!Slot) :
          /\ place # None <=> issue_outputs.rs # None
          /\ place # None => rs_cur[place] = None \/ place = leaving
          /\ \A slot \in RS!Slot :
               /\ slot = place => rs_cur'[slot] = issue_outputs.rs /\ rs_cur'[slot] # None
               /\ slot # place =>
                    (rs_cur'[slot] # None <=> rs_cur[slot] # None /\ slot # leaving)
               /\ slot # place /\ rs_cur'[slot] # None => Wakes(rs_cur'[slot], rs_cur[slot])
    BY <2>1, StationsFollow, FlowFacts
  <2>4. ASSUME NEW slot \in RS!Slot, rs_cur'[slot] # None
        PROVE  rs_cur'[slot].destination # tag
    <3>1. CASE slot # place
      BY <2>1, <2>3, <2>4, <3>1 DEF Wakes
    <3>2. CASE slot = place
      <4>1. rs_cur'[slot] = issue_outputs.rs /\ issue_outputs.rs # None
        BY <2>3, <2>4, <3>2
      <4>2. issue_outputs.rob # None
        BY <4>1, FlowFacts, IssueWires
      <4>3. issue_outputs.rs.destination = ROB!next_tag
        BY <4>1, <4>2, FlowFacts, IssuedParts
      <4> QED
        BY <2>1, <4>1, <4>2, <4>3, FlowFacts, NewTagIsFree
    <3> QED
      BY <3>1, <3>2
  <2> QED
    BY <2>1, <2>2, <2>4
<1>4. ASSUME lsq_load_result' # None
      PROVE  /\ Unfinished(lsq_load_result.tag)' /\ is_load(operation_of(lsq_load_result.tag)')
             /\ \A slot \in LSQ!Slot :
                  lsq_cur'[slot] # None => lsq_cur'[slot].destination # lsq_load_result'.tag
  <2>1. PICK tag \in RobTag :
               /\ lsq_load_result'.tag = tag
               /\ ~flush /\ Unfinished(tag) /\ is_load(operation_of(tag)) /\ ~completed(tag)
               /\ \A slot \in LSQ!Slot :
                    lsq_cur[slot] # None /\ (removed => slot # lsq_head) =>
                      lsq_cur[slot].destination # tag
    BY <1>2, <1>4
  <2>2. Unfinished(tag)' /\ operation_of(tag)' = operation_of(tag)
    BY <2>1, FlowFacts, UnfinishedStays
  <2>3. ASSUME NEW slot \in LSQ!Slot, lsq_cur'[slot] # None
        PROVE  lsq_cur'[slot].destination # tag
    <3>1. CASE stays_queued(slot)
      BY <2>1, <3>1, FlowFacts, CycleOfTheQueue DEF stays_queued, Continues
    <3>2. CASE ~stays_queued(slot)
      BY <2>1, <2>3, <3>2, QueueFollows, FlowFacts, NewTagIsFree
    <3> QED
      BY <3>1, <3>2
  <2> QED
    BY <2>1, <2>2, <2>3
<1> QED
  BY <1>3, <1>4 DEF ResultsBacked, ResultsDiffer

(* An unfinished instruction is passed on from its place to the next, from *)
(* which its result comes.                                                 *)
LEMMA StationsPassOn ==
  ASSUME FlowInv, Cycle, ~flush, NEW tag \in RobTag, InStations(tag), ~completed(tag)
  PROVE  InStations(tag)'
<1>1. PICK place \in Maybe(RS!Slot) :
        /\ place # None <=> issue_outputs.rs # None
        /\ place # None => rs_cur[place] = None \/ place = leaving
        /\ \A slot \in RS!Slot :
             /\ slot = place => rs_cur'[slot] = issue_outputs.rs /\ rs_cur'[slot] # None
             /\ slot # place =>
                  (rs_cur'[slot] # None <=> rs_cur[slot] # None /\ slot # leaving)
             /\ slot # place /\ rs_cur'[slot] # None => Wakes(rs_cur'[slot], rs_cur[slot])
  BY StationsFollow, FlowFacts
<1>2. ~(integer_granted /\ fu_result # None /\ fu_result.tag = tag)
  BY FlowFacts, CycleOfTheBus DEF completed
<1>3. CASE \E slot \in RS!Slot : rs_cur[slot] # None /\ rs_cur[slot].destination = tag
  <2>1. PICK slot \in RS!Slot : rs_cur[slot] # None /\ rs_cur[slot].destination = tag
    BY <1>3
  <2>2. CASE slot = leaving
    <3>1. Issue!need_rs(rs_cur[slot].op) /\ rs_cur[slot].op # "INVALID"
      <4>1. /\ Unfinished(tag) /\ rs_cur[slot].op = operation_of(tag)
            /\ Issue!need_rs(rs_cur[slot].op)
        BY <2>1, FlowFacts DEF StationsBacked
      <4> QED
        BY <4>1, FlowFacts
           DEF FlightIsSound, Unfinished, ROB!matching_entry, operation_of, RobTag
    <3>2. leaving # None
      BY <2>2, NothingAssumption
    <3>3. fu_result' # None /\ fu_result'.tag = tag
      BY <2>1, <2>2, <3>1, <3>2, FlowFacts, CycleOfTheUnit
    <3> QED
      BY <3>3 DEF InStations
  <2>3. CASE slot # leaving
    <3>1. slot # place
      BY <1>1, <2>1, <2>3, NothingAssumption
    <3>2. rs_cur'[slot] # None /\ rs_cur'[slot].destination = tag
      BY <1>1, <2>1, <2>3, <3>1 DEF Wakes
    <3> QED
      BY <3>2 DEF InStations
  <2> QED
    BY <2>2, <2>3
<1>4. CASE fu_result # None /\ fu_result.tag = tag
  <2>1. leaving = None
    BY <1>2, <1>4, FlowFacts, CycleOfTheUnit
  <2>2. fu_result' = fu_result
    BY <1>2, <1>4, <2>1, FlowFacts, CycleOfTheUnit
  <2> QED
    BY <1>4, <2>2 DEF InStations
<1> QED
  BY <1>3, <1>4 DEF InStations

LEMMA QueuePassesOn ==
  ASSUME FlowInv, Cycle, ~flush, NEW tag \in RobTag, InQueue(tag), ~completed(tag)
  PROVE  InQueue(tag)'
<1>1. TypeOK /\ LsqContiguous /\ ResponseIsKnown
  BY FlowFacts
<1>2. ~(load_granted /\ lsq_load_result # None /\ lsq_load_result.tag = tag)
  BY <1>1, CycleOfTheBus DEF completed
<1>3. CASE \E slot \in LSQ!Slot : lsq_cur[slot] # None /\ lsq_cur[slot].destination = tag
  <2>1. PICK slot \in LSQ!Slot : lsq_cur[slot] # None /\ lsq_cur[slot].destination = tag
    BY <1>3
  <2>2. CASE stays_queued(slot)
    <3>1. lsq_cur'[slot] # None /\ lsq_cur'[slot].destination = tag
      BY <1>1, <2>1, <2>2, CycleOfTheQueue DEF Continues
    <3> QED
      BY <3>1 DEF InQueue
  <2>3. CASE ~stays_queued(slot)
    <3>1. removed /\ slot = lsq_head /\ LSQ!front = lsq_cur[slot]
      BY <1>1, <2>1, <2>3, AnswersWereAsked DEF stays_queued
    <3>2. /\ lsq_cur[slot].op = operation_of(tag)
          /\ is_load(operation_of(tag)) \/ is_store(operation_of(tag))
      BY <2>1, FlowFacts, Kinds DEF QueueBacked
    <3>3. ~is_store(operation_of(tag))
      <4>1. is_store(operation_of(tag)) => store_completion = tag
        BY <2>1, <3>1, <3>2, SameOperations
           DEF store_completion, LSQ!store_completion, LSQ!remove_head, removed
      <4> QED
        BY <4>1, NoneAssumption DEF completed
    <3>4. lsq_load_result' # None /\ lsq_load_result'.tag = tag
      BY <2>1, <3>1, <3>2, <3>3, ResultsFollow
    <3> QED
      BY <3>4 DEF InQueue
  <2> QED
    BY <2>2, <2>3
<1>4. CASE lsq_load_result # None /\ lsq_load_result.tag = tag
  <2>1. lsq_load_result' = lsq_load_result
    BY <1>2, <1>4, ResultsFollow
  <2> QED
    BY <1>4, <2>1 DEF InQueue
<1> QED
  BY <1>3, <1>4 DEF InQueue

LEMMA CycleLosesNone == FlowInv /\ Cycle => NoneIsLost'
<1> SUFFICES ASSUME FlowInv, Cycle, NEW slot \in RobIndex,
                    rob_cur'[slot] # None, ~rob_cur'[slot].ready
             PROVE  IF Issue!need_rs(rob_cur'[slot].op) THEN InStations(rob_cur[slot].tag)'
                    ELSE InQueue(rob_cur[slot].tag)'
  BY DEF NoneIsLost
<1>1. RingInv /\ TypeOK /\ TypeOK'
  BY FlowFacts, CycleTypes
<1>2. CASE stays(slot)
  <2>1. /\ ~flush /\ rob_cur[slot] # None /\ rob_cur'[slot] = with_results[slot]
        /\ SameInstruction(rob_cur'[slot], rob_cur[slot])
    BY <1>1, <1>2, CycleOfTheRing DEF stays
  <2> PICK tag \in RobTag : tag = rob_cur[slot].tag
    BY <1>1, <2>1, SameRecords DEF TypeOK, RobTypeOK, Maybe
  <2>2. tag.index = slot /\ operation_of(tag) = rob_cur[slot].op
    BY <1>1, <2>1, TagTellsSlot DEF operation_of
  <2>3. ~completed(tag) /\ ~rob_cur[slot].ready
    BY <1>1, <2>1, <2>2, Readiness, Bus, QueueWires DEF with_results, completed
  <2>4. rob_cur'[slot].tag = tag /\ rob_cur'[slot].op = rob_cur[slot].op
    BY <2>1 DEF SameInstruction
  <2>5. IF Issue!need_rs(rob_cur[slot].op) THEN InStations(tag) ELSE InQueue(tag)
    BY <2>1, <2>3 DEF FlowInv, PlacesInv, NoneIsLost
  <2>6. IF Issue!need_rs(rob_cur[slot].op) THEN InStations(tag)' ELSE InQueue(tag)'
    BY <2>1, <2>3, <2>5, StationsPassOn, QueuePassesOn
  <2> QED
    BY <2>4, <2>6
<1>3. CASE joins(slot)
  <2>1. /\ ~flush /\ issue_outputs.rob # None /\ rob_cur'[slot] = issue_outputs.rob
    BY <1>1, <1>3, CycleOfTheRing DEF joins
  <2> PICK tag \in RobTag : tag = ROB!next_tag
    BY <1>1, <2>1, IssuedParts
  <2>2. rob_cur'[slot].tag = tag /\ rob_cur'[slot].op # "HALT"
    BY <1>1, <2>1, IssuedEntry, EntryOf
  <2>3. ASSUME Issue!need_rs(rob_cur'[slot].op)
        PROVE  InStations(tag)'
    <3>1. issue_outputs.rs # None /\ issue_outputs.rs.destination = tag
      BY <1>1, <2>1, <2>3, IssuedParts
    <3>2. \E new \in RS!Slot : rs_cur'[new] # None /\ rs_cur'[new].destination = tag
      BY <1>1, <2>1, <3>1, StationsFollow DEF Maybe
    <3> QED
      BY <3>2 DEF InStations
  <2>4. ASSUME ~Issue!need_rs(rob_cur'[slot].op)
        PROVE  InQueue(tag)'
    <3>1. Issue!need_lsq(issue_outputs.rob.op)
      BY <2>1, <2>2, <2>4, Kinds
    <3>2. issue_outputs.lsq # None /\ issue_outputs.lsq.destination = tag
      BY <1>1, <2>1, <3>1, IssuedParts
    <3> PICK new \in LSQ!Slot : new = lsq_tail
      BY FlowFacts, HeadOfTheQueue
    <3>3. joins_queue(new)
      BY <2>1, <3>2 DEF joins_queue
    <3>4. lsq_cur'[new] = LSQ!addressed(issue_outputs.lsq)
      BY <3>3, FlowFacts, CycleOfTheQueue
    <3>5. issue_outputs.lsq \in LSQ!LSQEntry
      BY <1>1, <3>2, IssueWires DEF Maybe
    <3>6. lsq_cur'[new] # None /\ lsq_cur'[new].destination = tag
      BY <3>2, <3>4, <3>5, EntryStarts
    <3> QED
      BY <3>6 DEF InQueue
  <2> QED
    BY <2>2, <2>3, <2>4
<1> QED
  BY <1>1, <1>2, <1>3, CycleOfTheRing

----------------------------------------------------------------------------
(* Memory and the head of the queue.                                       *)

LEMMA CycleKeepsRequests == FlowInv /\ Cycle => RequestsAreFinal'
<1> SUFFICES ASSUME FlowInv, Cycle, NEW slot \in LSQ!Slot, lsq_cur'[slot] # None
             PROVE  /\ is_store(lsq_cur'[slot].op) \/ lsq_cur'[slot].store_data.ready
                    /\ lsq_cur'[slot].request_sent =>
                         /\ slot = lsq_head'
                         /\ lsq_cur'[slot].address_ready /\ lsq_cur'[slot].store_data.ready
  BY DEF RequestsAreFinal
<1>1. TypeOK /\ LsqContiguous /\ RequestsAreFinal
  BY FlowFacts DEF FlowInv, MemoryInv
<1>2. CASE joins_queue(slot) /\ ~stays_queued(slot)
  BY <1>2, QueueFollows
<1>3. CASE stays_queued(slot)
  <2> DEFINE old == lsq_cur[slot]
             new == lsq_cur'[slot]
  <2>1. /\ old # None /\ ~flush
        /\ removed => slot # lsq_head
        /\ Continues(new, old, slot = lsq_head /\ sends)
    BY <1>1, <1>3, CycleOfTheQueue DEF stays_queued
  <2>2. old.store_data.ready => new.store_data.ready
    BY <2>1 DEF Continues, LSQ!wake_operand
  <2>3. is_store(old.op) \/ old.store_data.ready
    BY <1>1, <2>1 DEF RequestsAreFinal
  <2>4. ASSUME new.request_sent
        PROVE  slot = lsq_head /\ ~removed /\ old.address_ready /\ old.store_data.ready
    <3>1. CASE old.request_sent
      BY <1>1, <1>3, <2>1, <3>1 DEF RequestsAreFinal, stays_queued
    <3>2. CASE slot = lsq_head /\ sends
      <4>1. LSQ!front = old
        BY <1>1, <3>2, HeadOfTheQueue
      <4>2. old.address_ready /\ (is_load(old.op) \/ old.store_data.ready)
        BY <3>2, <4>1, SameOperations
           DEF sends, memory_request, LSQ!memory_request, LSQ!may_send
      <4>3. old.store_data.ready
        BY <2>3, <4>2, Kinds
      <4> QED
        BY <1>3, <3>2, <4>2, <4>3 DEF stays_queued
    <3> QED
      BY <2>1, <2>4, <3>1, <3>2 DEF Continues
  <2>5. new.request_sent => lsq_head' = lsq_head
    BY <1>1, <2>1, <2>4, CycleOfTheQueue
  <2> QED
    BY <2>1, <2>2, <2>3, <2>4, <2>5 DEF Continues
<1> QED
  BY <1>1, <1>2, <1>3, CycleOfTheQueue

FrontIsHead ==
  /\ lsq_head \in LSQ!Slot
  /\ LSQ!front # None <=> lsq_cur[lsq_head] # None
  /\ LSQ!front # None => LSQ!front = lsq_cur[lsq_head]

LEMMA FrontOfTheQueue == TypeOK /\ LsqContiguous => FrontIsHead
BY HeadOfTheQueue DEF FrontIsHead

(* What the queue has asked, it has asked for the entry that is its head   *)
(* still, and the request is the same.                                     *)
LEMMA AskedBefore ==
  ASSUME FlowInv, Cycle, asked'
  PROVE  /\ ~flush /\ ~removed /\ LSQ!front # None
         /\ asked \/ sends
         /\ LSQ!front'.op = LSQ!front.op
         /\ LSQ!front'.destination = LSQ!front.destination
         /\ LSQ!make_memory_request(LSQ!front)' = LSQ!make_memory_request(LSQ!front)
         /\ LSQ!front.destination \in RobTag /\ Unfinished(LSQ!front.destination)
         /\ operation_of(LSQ!front.destination) = LSQ!front.op
         /\ ~Abandoned(LSQ!front.destination)
<1>1. TypeOK /\ LsqContiguous /\ RequestsAreFinal /\ LsqContiguous' /\ TypeOK'
  BY FlowFacts, CycleTypes, CycleOfTheQueue DEF FlowInv, MemoryInv
<1>2. (LSQ!front # None)' /\ LSQ!front'.request_sent
  BY DEF asked
<1>3. FrontIsHead'
  BY <1>1, FrontOfTheQueue, PTL
<1> PICK slot \in LSQ!Slot : slot = lsq_head'
  BY <1>3 DEF FrontIsHead
<1> DEFINE old == lsq_cur[slot]
           new == lsq_cur'[slot]
<1>4. LSQ!front' = new /\ new # None /\ new.request_sent
  BY <1>2, <1>3 DEF FrontIsHead
<1>5. stays_queued(slot) /\ old # None /\ old \in LSQ!LSQEntry
      /\ Continues(new, old, slot = lsq_head /\ sends)
  BY <1>4, QueueFollows
<1>6. slot = lsq_head /\ ~removed /\ ~flush
  <2>1. old.request_sent \/ (slot = lsq_head /\ sends)
    BY <1>4, <1>5 DEF Continues
  <2>2. old.request_sent => slot = lsq_head
    BY <1>1, <1>5 DEF RequestsAreFinal
  <2> QED
    BY <1>5, <2>1, <2>2 DEF stays_queued
<1>7. LSQ!front = old
  BY <1>1, <1>5, <1>6, HeadOfTheQueue
<1>8. asked \/ sends
  BY <1>4, <1>5, <1>7 DEF asked, Continues
<1>9. old.address_ready /\ old.store_data.ready
  <2>1. CASE old.request_sent
    BY <1>1, <1>5, <2>1 DEF RequestsAreFinal
  <2>2. CASE sends
    <3>1. old.address_ready /\ (is_load(old.op) \/ old.store_data.ready)
      BY <2>2, <1>7, SameOperations
         DEF sends, memory_request, LSQ!memory_request, LSQ!may_send
    <3>2. is_store(old.op) \/ old.store_data.ready
      BY <1>1, <1>5 DEF RequestsAreFinal
    <3> QED
      BY <3>1, <3>2, Kinds
  <2> QED
    BY <1>7, <1>8, <2>1, <2>2 DEF asked
<1>10. /\ new.op = old.op /\ new.destination = old.destination
       /\ new.address = old.address /\ new.store_data = old.store_data
  BY <1>5, <1>9 DEF Continues, LSQ!wake_operand
<1>11. LSQ!make_memory_request(LSQ!front)' = LSQ!make_memory_request(LSQ!front)
  <2>1. LSQ!front'.op = LSQ!front.op /\ LSQ!front'.destination = LSQ!front.destination
        /\ LSQ!front'.address = LSQ!front.address
        /\ LSQ!front'.store_data = LSQ!front.store_data
    BY <1>4, <1>7, <1>10
  <2> QED
    BY <2>1 DEF LSQ!make_memory_request
<1>12. /\ old.destination \in RobTag /\ Unfinished(old.destination)
       /\ operation_of(old.destination) = old.op
       /\ ~Abandoned(old.destination)
  BY <1>5, FlowFacts, SameRecords DEF QueueBacked, Abandoned
<1> QED
  BY <1>4, <1>5, <1>6, <1>7, <1>8, <1>10, <1>11, <1>12

(* A head that memory serves, or is asked to, waits for its answer.        *)
LEMMA AsksStill ==
  ASSUME FlowInv, Cycle, ~flush, ~removed, asked \/ sends
  PROVE  asked'
<1>1. TypeOK /\ LsqContiguous /\ LsqContiguous' /\ TypeOK'
  BY FlowFacts, CycleTypes, CycleOfTheQueue
<1>2. FrontIsHead'
  BY <1>1, FrontOfTheQueue, PTL
<1> PICK slot \in LSQ!Slot : slot = lsq_head
  BY <1>1, HeadOfTheQueue
<1>3. LSQ!front # None /\ LSQ!front = lsq_cur[slot] /\ lsq_cur[slot] # None
  BY <1>1, HeadOfTheQueue DEF asked
<1>4. stays_queued(slot) /\ lsq_head' = slot
  BY <1>1, <1>3, CycleOfTheQueue DEF stays_queued
<1>5. lsq_cur'[slot] # None /\ Continues(lsq_cur'[slot], lsq_cur[slot], slot = lsq_head /\ sends)
  BY <1>1, <1>4, CycleOfTheQueue
<1>6. lsq_cur'[slot].request_sent
  BY <1>3, <1>5 DEF asked, Continues
<1> QED
  BY <1>2, <1>4, <1>5, <1>6 DEF FrontIsHead, asked

LEMMA SendsOnce ==
  ASSUME FlowInv, Cycle, sends
  PROVE  ~flush /\ ~removed /\ ~asked /\ asked'
<1>1. TypeOK /\ LsqContiguous /\ ResponseIsKnown
  BY FlowFacts
<1>2. ~flush /\ ~asked
  BY DEF sends, memory_request, LSQ!memory_request, asked
<1>3. ~removed
  BY <1>1, <1>2, AnswersWereAsked
<1> QED
  BY <1>2, <1>3, AsksStill

(* An unfinished head of the ring stays the head, and prevents a flush.    *)
LEMMA HeadWaits ==
  ASSUME RingInv, ROB!front # None, Unfinished(ROB!front.tag)
  PROVE  /\ ~ROB!front.ready /\ ~flush
         /\ Cycle => (ROB!front # None)' /\ ROB!front'.tag = ROB!front.tag
<1>1. TypeOK /\ ROB!front = rob_cur[rob_head] /\ rob_count # 0 /\ rob_head \in RobIndex
  BY RobHead DEF RingInv, TypeOK, RobTypeOK
<1> PICK slot \in RobIndex : slot = rob_head
  BY <1>1
<1>2. rob_cur[slot] # None /\ rob_cur[slot].tag.index = slot /\ ROB!front = rob_cur[slot]
  BY <1>1, TagTellsSlot
<1> PICK tag \in RobTag : tag = rob_cur[slot].tag
  BY <1>1, <1>2, SameRecords DEF TypeOK, RobTypeOK, Maybe
<1>3. Unfinished(tag) /\ tag.index = slot /\ ~rob_cur[slot].ready
  BY <1>1, <1>2 DEF Unfinished
<1>4. ~ROB!front.ready
  BY <1>2, <1>3
<1>5. commit = None
  BY <1>1, <1>4 DEF commit, ROB!commit
<1>6. ~flush
  BY <1>1, <1>5, Retiring
<1>7. ASSUME Cycle
      PROVE  (ROB!front # None)' /\ ROB!front'.tag = ROB!front.tag
  <2>1. rob_cur'[slot] # None /\ rob_cur'[slot].tag = tag
    BY <1>3, <1>6, <1>7, UnfinishedStays
  <2>2. rob_head' = slot
    <3>1. ROB!advance(issue_outputs.rob, completion, store_completion)
      BY <1>1, <1>6, <1>7, CycleParts, RobHead DEF ROB!apply
    <3> QED
      BY <1>5, <3>1 DEF ROB!advance, commit
  <2>3. rob_count' # 0
    <3>1. rob_count \in Nat /\ retired = 0
      BY <1>1, <1>5 DEF TypeOK, RobTypeOK, retired
    <3>2. rob_count' = rob_count - retired + (IF issue_outputs.rob = None THEN 0 ELSE 1)
      BY <1>6, <1>7, CycleOfTheRing
    <3> QED
      BY <1>1, <3>1, <3>2
  <2>4. ROB!front' = rob_cur'[slot]
    BY <2>2, <2>3 DEF ROB!front, ROB!empty
  <2> QED
    BY <1>2, <2>1, <2>4
<1> QED
  BY <1>4, <1>6, <1>7

LEMMA CycleKeepsTiming == FlowInv /\ Cycle => RequestsAreTimely'
<1> SUFFICES ASSUME FlowInv, Cycle, asked'
             PROVE  /\ is_load(LSQ!front.op)' => lsq_load_result' = None
                    /\ is_store(LSQ!front.op)' =>
                         /\ (ROB!front # None)'
                         /\ ROB!front'.tag = LSQ!front'.destination
  BY DEF RequestsAreTimely
<1>1. TypeOK /\ LsqContiguous /\ RingInv /\ RequestsAreTimely
  BY FlowFacts DEF FlowInv, MemoryInv
<1> PICK tag : tag = LSQ!front.destination
  OBVIOUS
<1> PICK op : op = LSQ!front.op
  OBVIOUS
<1>2. /\ ~flush /\ ~removed /\ LSQ!front # None
      /\ asked \/ sends
      /\ LSQ!front'.op = op /\ LSQ!front'.destination = tag
      /\ tag \in RobTag /\ Unfinished(tag)
  BY AskedBefore
<1>3. is_load(LSQ!front.op)' = is_load(op) /\ is_store(LSQ!front.op)' = is_store(op)
  BY <1>2 DEF is_load, is_store
<1>4. sends => LSQ!may_send(store_request, load_granted)
  BY DEF sends, memory_request, LSQ!memory_request
<1>5. is_load(op) => lsq_load_result' = None
  <2>1. is_load(op) => lsq_load_result = None \/ load_granted
    BY <1>1, <1>2, <1>4, SameOperations DEF RequestsAreTimely, LSQ!may_send
  <2>2. lsq_load_result' = LET loaded == LSQ!completed_load_result(response, FALSE)
                           IN  IF loaded # None THEN loaded
                               ELSE IF load_granted THEN None ELSE lsq_load_result
    BY <1>1, <1>2, CycleOfTheQueue
  <2>3. LSQ!completed_load_result(response, FALSE) = None
    BY <1>2 DEF LSQ!completed_load_result, removed
  <2> QED
    BY <2>1, <2>2, <2>3
<1>6. is_store(op) => ROB!front # None /\ ROB!front.tag = tag
  <2>1. asked => (is_store(op) => ROB!front # None /\ ROB!front.tag = tag)
    BY <1>1 DEF RequestsAreTimely
  <2>2. sends /\ is_store(op) => store_request # None /\ store_request = tag
    BY <1>4, SameOperations, Kinds DEF LSQ!may_send
  <2>3. store_request # None => ROB!front # None /\ ROB!front.tag = store_request
    BY DEF store_request
  <2> QED
    BY <1>2, <2>1, <2>2, <2>3
<1> QED
  BY <1>1, <1>2, <1>3, <1>5, <1>6, HeadWaits

(* Drift without the modulo. *)
DriftIsDifference(tag) ==
  LET now == rob_generations[tag.index]
  IN  /\ now \in Nat /\ now < GenerationSize
      /\ tag.generation \in Nat /\ tag.generation < GenerationSize
      /\ drift(tag) = IF now >= tag.generation THEN now - tag.generation
                      ELSE now + GenerationSize - tag.generation

DriftsAreDifferences == \A tag \in RobTag : DriftIsDifference(tag)

LEMMA Drifts == TypeOK => DriftsAreDifferences
<1> SUFFICES ASSUME TypeOK, NEW tag \in RobTag PROVE DriftIsDifference(tag)
  BY DEF DriftsAreDifferences
<1> DEFINE now == rob_generations[tag.index]
           then == tag.generation
<1>1. /\ GenerationSize \in Nat /\ GenerationSize > 1
      /\ now \in Nat /\ now < GenerationSize /\ then \in Nat /\ then < GenerationSize
  BY SignalsAssumption DEF TypeOK, RobTypeOK, RobTag, TagGeneration
<1>2. drift(tag) = (now + GenerationSize - then) % GenerationSize
  BY DEF drift
<1> HIDE DEF now, then
<1>3. CASE now >= then
  <2> DEFINE d == now - then
  <2>1. d \in Nat /\ d < GenerationSize /\ now + GenerationSize - then = d + GenerationSize
    BY <1>1, <1>3
  <2> HIDE DEF d
  <2>2. (d + GenerationSize) % GenerationSize = d
    BY <1>1, <2>1
  <2> QED
    BY <1>1, <1>2, <1>3, <2>1, <2>2 DEF d, now, then, DriftIsDifference
<1>4. CASE now < then
  <2> DEFINE d == now + GenerationSize - then
  <2>1. d \in Nat /\ d < GenerationSize
    BY <1>1, <1>4
  <2> HIDE DEF d
  <2>2. d % GenerationSize = d
    BY <1>1, <2>1
  <2>3. drift(tag) = d
    BY <1>2, <2>2 DEF d
  <2> QED
    BY <1>1, <1>4, <2>3 DEF d, now, then, DriftIsDifference
<1> QED
  BY <1>1, <1>3, <1>4

(* A cycle gives each slot out at most once, and a flush none.             *)
LEMMA CycleOfTheDrift ==
  ASSUME RingInv, Cycle, NEW tag \in RobTag
  PROVE  /\ drift(tag) \in Nat /\ drift(tag)' \in Nat
         /\ drift(tag)' <= drift(tag) + 1
         /\ flush => drift(tag)' = drift(tag)
         /\ issue_outputs.rob # None /\ tag = ROB!next_tag =>
              drift(tag) = GenerationSize - 1
         /\ Unfinished(tag) => drift(tag) = 0
<1> DEFINE now == rob_generations[tag.index]
           then == tag.generation
           next == ROB!following_generation(rob_generations[rob_tail])
<1>1. /\ TypeOK /\ TypeOK'
      /\ GenerationSize \in Nat /\ GenerationSize > 1
      /\ tag.index \in RobIndex /\ rob_tail \in RobIndex
      /\ rob_generations \in [RobIndex -> TagGeneration]
  <2>1. TypeOK /\ TypeOK'
    BY CycleTypes DEF RingInv
  <2>2. /\ GenerationSize \in Nat /\ GenerationSize > 1
        /\ tag.index \in RobIndex /\ rob_tail \in RobIndex
        /\ rob_generations \in [RobIndex -> TagGeneration]
    BY <2>1, SignalsAssumption DEF TypeOK, RobTypeOK, RobTag
  <2> QED
    BY <2>1, <2>2
<1>2. /\ now \in Nat /\ now < GenerationSize /\ then \in Nat /\ then < GenerationSize
      /\ drift(tag) = IF now >= then THEN now - then ELSE now + GenerationSize - then
  BY <1>1, Drifts DEF DriftsAreDifferences, DriftIsDifference
<1>3. /\ now' \in Nat /\ now' < GenerationSize
      /\ drift(tag)' = IF now' >= then THEN now' - then ELSE now' + GenerationSize - then
  <2>1. DriftsAreDifferences'
    BY <1>1, Drifts, PTL
  <2> QED
    BY <2>1 DEF DriftsAreDifferences, DriftIsDifference
<1>4. next = IF rob_generations[rob_tail] + 1 = GenerationSize THEN 0
             ELSE rob_generations[rob_tail] + 1
  <2> DEFINE g == rob_generations[rob_tail]
  <2>1. g \in Nat /\ g + 1 <= GenerationSize
    BY <1>1 DEF TagGeneration
  <2> HIDE DEF g
  <2>2. g + 1 = GenerationSize => (g + 1) % GenerationSize = 0
    BY <1>1, <2>1
  <2>3. g + 1 # GenerationSize => (g + 1) % GenerationSize = g + 1
    BY <1>1, <2>1
  <2> QED
    BY <2>2, <2>3 DEF g, ROB!following_generation
<1>5. /\ flush => now' = now
      /\ now' = now \/ (now' = next /\ tag.index = rob_tail)
  <2>1. CASE flush
    <3>1. rob_generations' = rob_generations
      <4>1. ROB!flush
        BY <1>1, <2>1, RobHead
      <4> QED
        BY <4>1, CycleParts DEF ROB!apply, ROB!clear_speculative_entries
    <3> QED
      BY <2>1, <3>1
  <2>2. CASE ~flush
    <3>1. ROB!advance(issue_outputs.rob, completion, store_completion)
      BY <1>1, <2>2, CycleParts, RobHead DEF ROB!apply
    <3>2. CASE ROB!accepts(issue_outputs.rob)
      <4>1. /\ rob_generations' =
                 [rob_generations EXCEPT ![rob_tail] = issue_outputs.rob.tag.generation]
            /\ issue_outputs.rob # None
        BY <3>1, <3>2 DEF ROB!advance, ROB!accepts
      <4>2. issue_outputs.rob.tag.generation = next
        BY <1>1, <4>1, IssuedEntry
      <4> HIDE DEF next
      <4> QED
        BY <1>1, <2>2, <4>1, <4>2
    <3>3. CASE ~ROB!accepts(issue_outputs.rob)
      <4>1. rob_generations' = rob_generations
        BY <3>1, <3>3 DEF ROB!advance
      <4> QED
        BY <2>2, <4>1
    <3> QED
      BY <3>2, <3>3
  <2> QED
    BY <2>1, <2>2
<1>6. issue_outputs.rob # None /\ tag = ROB!next_tag => tag.index = rob_tail /\ then = next
  <2>1. issue_outputs.rob # None =>
          /\ issue_outputs.rob.tag = ROB!next_tag
          /\ issue_outputs.rob.tag.index = rob_tail
          /\ issue_outputs.rob.tag.generation = next
    BY <1>1, IssuedEntry
  <2> QED
    BY <2>1
<1>7. Unfinished(tag) => now = then
  <2> SUFFICES ASSUME Unfinished(tag) PROVE now = then
    OBVIOUS
  <2>1. rob_cur[tag.index] # None /\ rob_cur[tag.index].tag = tag
    BY DEF Unfinished, ROB!matching_entry
  <2> QED
    BY <1>1, <2>1, TagTellsSlot
<1>8. tag.index = rob_tail => now = rob_generations[rob_tail]
  OBVIOUS
<1> HIDE DEF next
<1>9. tag.index = rob_tail => next = IF now + 1 = GenerationSize THEN 0 ELSE now + 1
  BY <1>4, <1>8
<1>10. drift(tag) \in Nat /\ drift(tag)' \in Nat
  BY <1>1, <1>2, <1>3
<1>11. drift(tag)' <= drift(tag) + 1
  BY <1>1, <1>2, <1>3, <1>5, <1>9
<1>12. flush => drift(tag)' = drift(tag)
  BY <1>2, <1>3, <1>5
<1>13. issue_outputs.rob # None /\ tag = ROB!next_tag => drift(tag) = GenerationSize - 1
  BY <1>1, <1>2, <1>6, <1>9
<1>14. Unfinished(tag) => drift(tag) = 0
  BY <1>1, <1>2, <1>7
<1> QED
  BY <1>10, <1>11, <1>12, <1>13, <1>14

(* What memory serves or answers in a cycle was asked for, or abandoned    *)
(* and still is: the abandoned tag is not given out again in time.         *)
LEMMA AbandonedStays ==
  ASSUME FlowInv, Cycle, NEW tag \in RobTag, Abandoned(tag),
         drift(tag) # GenerationSize - 1
  PROVE  Abandoned(tag)'
<1>1. TypeOK /\ LsqContiguous /\ RingInv
  BY FlowFacts
<1> SUFFICES ASSUME NEW slot \in LSQ!Slot, lsq_cur'[slot] # None
             PROVE  lsq_cur'[slot].destination # tag
  BY DEF Abandoned
<1>2. CASE stays_queued(slot)
  BY <1>1, <1>2, CycleOfTheQueue DEF Abandoned, stays_queued, Continues
<1>3. CASE ~stays_queued(slot)
  BY <1>1, <1>3, QueueFollows, CycleOfTheDrift
<1> QED
  BY <1>2, <1>3

(* A flush removes only what was not asked for on behalf of a store.       *)
LEMMA FlushAbandons ==
  ASSUME FlowInv, Cycle, flush, asked
  PROVE  /\ ~is_store(LSQ!front.op)
         /\ LSQ!front.destination \in RobTag /\ Unfinished(LSQ!front.destination)
<1>1. TypeOK /\ LsqContiguous /\ RingInv
  BY FlowFacts
<1> PICK tag : tag = LSQ!front.destination
  OBVIOUS
<1>2. LSQ!front \in LSQ!LSQEntry /\ LSQ!front # None
  BY <1>1, QueueHead DEF asked, Maybe
<1>3. tag \in RobTag /\ Unfinished(tag)
  BY <1>1, <1>2, HeadOfTheQueue, FlowFacts, SameRecords DEF QueueBacked
<1>4. ~is_store(LSQ!front.op)
  <2>1. is_store(LSQ!front.op) => ROB!front # None /\ ROB!front.tag = tag
    BY DEF FlowInv, MemoryInv, RequestsAreTimely
  <2> QED
    BY <1>1, <1>3, <2>1, HeadWaits
<1> QED
  BY <1>3, <1>4

LEMMA CycleKeepsTransaction == FlowInv /\ Cycle => TransactionIsKnown'
<1> SUFFICES ASSUME FlowInv, Cycle, transaction' # None
             PROVE  \/ /\ asked'
                       /\ transaction'.request = LSQ!make_memory_request(LSQ!front)'
                    \/ /\ ~transaction'.request.is_store
                       /\ Abandoned(transaction.request.tag)'
                       /\ drift(transaction.request.tag)' + transaction'.remaining_cycles
                            < DataLatency
  BY DEF TransactionIsKnown
<1>1. /\ TypeOK /\ LsqContiguous /\ RingInv /\ TransactionIsKnown /\ ResponseIsKnown
      /\ DataLatency \in Nat /\ DataLatency <= GenerationSize /\ GenerationSize \in Nat
  BY FlowFacts, CPUAssumption, SignalsAssumption, LatencyAssumption DEF FlowInv, MemoryInv
<1>2. CASE sends
  BY <1>1, <1>2, SendsOnce, AskedBefore, CycleOfMemory, HeadOfTheQueue
<1>3. CASE ~sends
  <2> PICK request : request = transaction.request
    OBVIOUS
  <2> PICK cycles : cycles = transaction.remaining_cycles
    OBVIOUS
  <2>1. /\ transaction # None /\ cycles \in 1 .. DataLatency /\ cycles # 1
        /\ transaction'.request = request /\ transaction'.remaining_cycles = cycles - 1
        /\ request.tag \in RobTag
    BY <1>1, <1>3, CycleOfMemory, SameRecords
  <2> PICK tag \in RobTag : tag = request.tag
    BY <2>1
  <2>2. ~removed
    BY <1>1, <2>1, AnswersWereAsked
  <2>3. CASE asked /\ request = LSQ!make_memory_request(LSQ!front)
    <3>1. CASE ~flush
      BY <1>1, <2>1, <2>2, <2>3, <3>1, AsksStill, AskedBefore
    <3>2. CASE flush
      <4>1. tag = LSQ!front.destination /\ request.is_store = LSQ!is_store(LSQ!front.op)
        BY <2>3 DEF LSQ!make_memory_request
      <4>2. /\ ~is_store(LSQ!front.op) /\ Unfinished(tag)
            /\ \A slot \in LSQ!Slot : lsq_cur'[slot] = None
        BY <1>1, <2>3, <3>2, <4>1, FlushAbandons, CycleOfTheQueue
           DEF stays_queued, joins_queue
      <4>3. Abandoned(tag)' /\ drift(tag)' = 0
        BY <1>1, <3>2, <4>2, CycleOfTheDrift DEF Abandoned
      <4>4. 0 + (cycles - 1) < DataLatency
        BY <1>1, <2>1
      <4> QED
        BY <2>1, <4>1, <4>2, <4>3, <4>4, SameOperations
    <3> QED
      BY <3>1, <3>2
  <2>4. CASE /\ ~request.is_store /\ Abandoned(tag)
             /\ drift(tag) + cycles < DataLatency
    <3>1. /\ drift(tag) \in Nat /\ drift(tag)' \in Nat /\ drift(tag)' <= drift(tag) + 1
      BY <1>1, CycleOfTheDrift
    <3>2. drift(tag) # GenerationSize - 1
      BY <1>1, <2>1, <2>4, <3>1
    <3>3. Abandoned(tag)'
      BY <2>4, <3>2, AbandonedStays
    <3>4. drift(tag)' + (cycles - 1) < DataLatency
      BY <1>1, <2>1, <2>4, <3>1
    <3> QED
      BY <2>1, <2>4, <3>3, <3>4
  <2> QED
    BY <1>1, <2>1, <2>3, <2>4 DEF TransactionIsKnown
<1> QED
  BY <1>2, <1>3

LEMMA CycleKeepsResponse == FlowInv /\ Cycle => ResponseIsKnown'
<1> SUFFICES ASSUME FlowInv, Cycle, response' # None
             PROVE  /\ transaction' = None
                    /\ \/ asked' /\ LSQ!matching_response(response)'
                       \/ ~response'.is_store /\ Abandoned(response.tag)'
  BY DEF ResponseIsKnown
<1>1. /\ TypeOK /\ LsqContiguous /\ RingInv /\ TransactionIsKnown /\ ResponseIsKnown
      /\ DataLatency \in Nat /\ DataLatency <= GenerationSize /\ GenerationSize \in Nat
  BY FlowFacts, CPUAssumption, SignalsAssumption, LatencyAssumption DEF FlowInv, MemoryInv
<1> PICK request : request = transaction.request
  OBVIOUS
<1>2. /\ transaction # None /\ transaction.remaining_cycles = 1 /\ transaction' = None
      /\ response'.tag = request.tag /\ response'.is_store = request.is_store
      /\ request.tag \in RobTag
  BY <1>1, CycleOfMemory, SameRecords
<1> PICK tag \in RobTag : tag = request.tag
  BY <1>2
<1>3. ~removed
  BY <1>1, <1>2, AnswersWereAsked
<1>4. CASE asked /\ request = LSQ!make_memory_request(LSQ!front)
  <2>1. tag = LSQ!front.destination /\ request.is_store = LSQ!is_store(LSQ!front.op)
    BY <1>4 DEF LSQ!make_memory_request
  <2>2. CASE ~flush
    <3>1. asked' /\ LSQ!front'.op = LSQ!front.op
          /\ LSQ!front'.destination = LSQ!front.destination
      BY <1>3, <1>4, <2>2, AsksStill, AskedBefore
    <3>2. (LSQ!front # None)'
      BY <3>1 DEF asked
    <3>3. LSQ!is_store(LSQ!front.op)' = LSQ!is_store(LSQ!front.op)
      BY <3>1 DEF LSQ!is_store
    <3>4. LSQ!matching_response(response)'
      BY <1>2, <2>1, <3>1, <3>2, <3>3 DEF LSQ!matching_response
    <3> QED
      BY <1>2, <3>1, <3>4
  <2>3. CASE flush
    <3>1. /\ ~is_store(LSQ!front.op)
          /\ \A slot \in LSQ!Slot : lsq_cur'[slot] = None
      BY <1>1, <1>4, <2>3, FlushAbandons, CycleOfTheQueue DEF stays_queued, joins_queue
    <3>2. Abandoned(tag)'
      BY <3>1 DEF Abandoned
    <3> QED
      BY <1>2, <2>1, <3>1, <3>2, SameOperations
  <2> QED
    BY <2>2, <2>3
<1>5. CASE ~request.is_store /\ Abandoned(tag) /\ drift(tag) + 1 < DataLatency
  <2>1. drift(tag) \in Nat
    BY <1>1, CycleOfTheDrift
  <2>2. drift(tag) # GenerationSize - 1
    BY <1>1, <1>5, <2>1
  <2>3. Abandoned(tag)'
    BY <1>5, <2>2, AbandonedStays
  <2> QED
    BY <1>2, <1>5, <2>3
<1> QED
  BY <1>1, <1>2, <1>4, <1>5 DEF TransactionIsKnown

LEMMA CycleKeepsService == FlowInv /\ Cycle => RequestsAreServed'
<1> SUFFICES ASSUME FlowInv, Cycle, status' = "Running", asked'
             PROVE  \/ /\ transaction' # None
                       /\ transaction'.request = LSQ!make_memory_request(LSQ!front)'
                    \/ LSQ!matching_response(response)'
  BY DEF RequestsAreServed
<1>1. TypeOK /\ LsqContiguous /\ RequestsAreServed /\ ResponseIsKnown' /\ status = "Running"
  BY FlowFacts, CycleKeepsResponse, CycleParts DEF FlowInv, MemoryInv
<1>2. /\ ~flush /\ ~removed
      /\ asked \/ sends
      /\ LSQ!make_memory_request(LSQ!front)' = LSQ!make_memory_request(LSQ!front)
      /\ LSQ!front'.destination = LSQ!front.destination
      /\ ~Abandoned(LSQ!front.destination)
  BY AskedBefore
<1>3. CASE sends
  BY <1>1, <1>2, <1>3, CycleOfMemory, HeadOfTheQueue
<1>4. CASE ~sends
  <2>1. ~LSQ!matching_response(response)
    <3>1. ~memory_error
      BY <1>1, CycleParts DEF next_status, Status
    <3> QED
      BY <1>2, <3>1 DEF memory_error, LSQ!memory_error, removed, LSQ!remove_head
  <2>2. transaction # None /\ transaction.request = LSQ!make_memory_request(LSQ!front)
    BY <1>1, <1>2, <1>4, <2>1 DEF RequestsAreServed
  <2>3. CASE transaction.remaining_cycles # 1
    BY <1>1, <1>2, <1>4, <2>2, <2>3, CycleOfMemory
  <2>4. CASE transaction.remaining_cycles = 1
    <3>1. response' # None /\ response'.tag = transaction.request.tag
      BY <1>1, <2>2, <2>4, CycleOfMemory
    <3>2. response'.tag = LSQ!front.destination
      BY <2>2, <3>1 DEF LSQ!make_memory_request
    <3>3. ~Abandoned(response.tag)'
      <4>1. LsqContiguous' /\ TypeOK'
        BY <1>1, CycleTypes, CycleOfTheQueue
      <4>2. FrontIsHead'
        BY <4>1, FrontOfTheQueue, PTL
      <4>3. (LSQ!front # None)' /\ LSQ!front'.destination = response'.tag
        BY <1>2, <3>2 DEF asked
      <4> PICK slot \in LSQ!Slot : slot = lsq_head'
        BY <4>2 DEF FrontIsHead
      <4>4. lsq_cur'[slot] # None /\ lsq_cur'[slot].destination = response'.tag
        BY <4>2, <4>3 DEF FrontIsHead
      <4> QED
        BY <4>4 DEF Abandoned
    <3> QED
      BY <1>1, <3>1, <3>3 DEF ResponseIsKnown
  <2> QED
    BY <2>3, <2>4
<1> QED
  BY <1>3, <1>4

----------------------------------------------------------------------------
(* The operands that wait. *)

(* An operand that is not woken by this cycle's broadcast waits on.        *)
LEMMA WaitingGoesOn ==
  ASSUME FlowInv, Cycle, ~flush, NEW operand \in Operand, NEW consumer \in RobTag,
         awaited(operand, consumer), Unfinished(consumer),
         NEW woken, woken = RS!wake_operand(operand, broadcast)
  PROVE  awaited(woken, consumer)'
<1>1. RingInv /\ TypeOK /\ FlightIsSound
  BY FlowFacts
<1>2. CASE woken.ready
  BY <1>2 DEF awaited
<1>3. CASE ~woken.ready
  <2>1. /\ woken = operand /\ ~operand.ready
        /\ ~(broadcast # None /\ operand.tag = broadcast.tag)
    BY <1>3 DEF RS!wake_operand, RS!ready_operand
  <2>2. operand.tag \in Maybe(RobTag)
    BY DEF Operand
  <2>3. /\ ROB!lookup(operand.tag) # None /\ ROB!lookup(operand.tag).writes_rd
        /\ ~ROB!lookup(operand.tag).ready
        /\ age(operand.tag.index) < age(consumer.index)
    BY <2>1 DEF awaited
  <2> PICK producer \in RobTag : producer = operand.tag
    BY <1>1, <2>2, <2>3, Lookup
  <2>4. /\ rob_cur[producer.index] # None /\ rob_cur[producer.index].tag = producer
        /\ rob_cur[producer.index].writes_rd /\ ~rob_cur[producer.index].ready
        /\ producer.index \in RobIndex
        /\ age(producer.index) < age(consumer.index)
    BY <1>1, <2>3, Lookup DEF RobTag, Maybe
  <2>5. Unfinished(producer)
    BY <2>4, NoneAssumption DEF Unfinished, ROB!matching_entry
  <2>6. ~completed(producer)
    <3>1. ~(completion # None /\ completion.tag = producer)
      BY <1>1, <2>1, CycleOfTheBus
    <3>2. ~is_store(operation_of(producer))
      BY <1>1, <2>4, Kinds DEF FlightIsSound, operation_of
    <3> QED
      BY <3>1, <3>2 DEF completed
  <2>7. /\ rob_cur'[producer.index] # None /\ rob_cur'[producer.index].tag = producer
        /\ rob_cur'[producer.index].writes_rd /\ ~rob_cur'[producer.index].ready
        /\ age(producer.index)' = age(producer.index) - retired
    <3>1. Unfinished(producer)'
      BY <1>1, <2>5, <2>6, UnfinishedStays
    <3>2. /\ rob_cur'[producer.index] # None /\ rob_cur'[producer.index].tag = producer
          /\ rob_cur'[producer.index].writes_rd = rob_cur[producer.index].writes_rd
          /\ age(producer.index)' = age(producer.index) - retired
      BY <1>1, <2>5, UnfinishedStays
    <3> QED
      BY <2>4, <3>1, <3>2 DEF Unfinished
  <2>8. /\ rob_cur'[consumer.index] # None /\ rob_cur'[consumer.index].tag = consumer
        /\ age(consumer.index)' = age(consumer.index) - retired
        /\ consumer.index \in RobIndex
    BY <1>1, UnfinishedStays
  <2>9. age(producer.index)' < age(consumer.index)'
    <3>1. /\ age(producer.index) \in Nat /\ age(consumer.index) \in Nat
          /\ retired \in {0, 1}
      BY <1>1, <2>4, <2>8, Ages, Retiring
    <3> QED
      BY <2>4, <2>7, <2>8, <3>1
  <2>10. ROB!lookup(producer)' = rob_cur'[producer.index]
    BY <2>7, NoneAssumption DEF ROB!lookup, ROB!matching_entry
  <2>11. ROB!lookup(consumer)' = rob_cur'[consumer.index]
    BY <2>8, NoneAssumption DEF ROB!lookup, ROB!matching_entry
  <2> QED
    BY <2>1, <2>7, <2>8, <2>9, <2>10, <2>11 DEF awaited
<1> QED
  BY <1>2, <1>3

(* A source operand is read from whoever writes the register last.         *)
LEMMA SourcesWait ==
  ASSUME FlowInv, Cycle, ~flush, issue_outputs.rob # None, NEW r \in RegisterIndex,
         NEW operand, operand = Issue!resolve_register(r, source_state(r), broadcast),
         NEW consumer, consumer = ROB!next_tag
  PROVE  awaited(operand, consumer)'
<1>1. RingInv /\ TypeOK /\ FlightIsSound /\ RatNamesYoungestWriter
  BY FlowFacts DEF FlowInv, IInv
<1>2. CASE operand.ready
  BY <1>2 DEF awaited
<1>3. CASE ~operand.ready
  <2>1. /\ r # 0 /\ rat[r] # None /\ operand = waiting_operand(rat[r])
        /\ ~(broadcast # None /\ broadcast.tag = rat[r])
        /\ ~(ROB!lookup(rat[r]) # None /\ ROB!lookup(rat[r]).ready)
    <3> DEFINE source == source_state(r)
    <3>1. /\ source.producer = RAT!lookup(r)
          /\ ROB!lookup(RAT!lookup(r)) # None /\ ROB!lookup(RAT!lookup(r)).ready
               => source.producer_ready
      BY DEF source_state
    <3> HIDE DEF source
    <3>2. \A value : Issue!ready_operand(value).ready
      BY DEF Issue!ready_operand
    <3>3. /\ r # 0 /\ source.producer # None
          /\ ~(broadcast # None /\ broadcast.tag = source.producer)
          /\ ~source.producer_ready /\ operand = Issue!waiting_operand(source.producer)
      BY <1>3, <3>2 DEF Issue!resolve_register, source
    <3>4. Issue!waiting_operand(source.producer) = waiting_operand(source.producer)
      BY DEF Issue!waiting_operand, waiting_operand
    <3> QED
      BY <3>1, <3>3, <3>4 DEF RAT!lookup
  <2>2. PICK slot \in RobIndex :
          /\ rat[r] = rob_cur[slot].tag /\ rob_cur[slot] # None /\ rob_cur[slot].writes_rd
    BY <1>1, <2>1 DEF RatNamesYoungestWriter, writers
  <2> PICK producer \in RobTag : producer = rat[r]
    BY <1>1, <2>2, SameRecords DEF TypeOK, RobTypeOK, Maybe
  <2>3. producer.index = slot
    BY <1>1, <2>2, TagTellsSlot
  <2>4. ROB!lookup(producer) = rob_cur[slot] /\ ~rob_cur[slot].ready
    BY <2>1, <2>2, <2>3, NoneAssumption DEF ROB!lookup, ROB!matching_entry
  <2>5. Unfinished(producer)
    BY <2>2, <2>3, <2>4, NoneAssumption DEF Unfinished, ROB!matching_entry
  <2>6. ~completed(producer)
    <3>1. ~(completion # None /\ completion.tag = producer)
      BY <1>1, <2>1, CycleOfTheBus
    <3>2. ~is_store(operation_of(producer))
      BY <1>1, <2>2, <2>3, Kinds DEF FlightIsSound, operation_of
    <3> QED
      BY <3>1, <3>2 DEF completed
  <2>7. /\ rob_cur'[slot] # None /\ rob_cur'[slot].tag = producer
        /\ rob_cur'[slot].writes_rd /\ ~rob_cur'[slot].ready
        /\ age(slot)' = age(slot) - retired
    <3>1. Unfinished(producer)'
      BY <1>1, <2>5, <2>6, UnfinishedStays
    <3>2. /\ rob_cur'[slot] # None /\ rob_cur'[slot].tag = producer
          /\ rob_cur'[slot].writes_rd = rob_cur[slot].writes_rd
          /\ age(slot)' = age(slot) - retired
      BY <1>1, <2>3, <2>5, UnfinishedStays
    <3> QED
      BY <2>2, <2>3, <3>1, <3>2 DEF Unfinished
  <2>8. /\ consumer \in RobTag /\ rob_cur'[consumer.index] = issue_outputs.rob
        /\ age(consumer.index)' = rob_count - retired
        /\ issue_outputs.rob.tag = consumer
    BY <1>1, NewIsUnfinished, IssuedEntry
  <2>9. age(slot)' < age(consumer.index)'
    <3>1. /\ age(slot) \in Nat /\ age(slot) < rob_count /\ rob_count \in Nat
          /\ retired \in {0, 1}
      BY <1>1, <2>2, Ages, Retiring, SignalsAssumption
         DEF RingInv, RobContiguous, TypeOK, RobTypeOK
    <3> QED
      BY <2>7, <2>8, <3>1
  <2>10. ROB!lookup(producer)' = rob_cur'[slot]
    BY <2>3, <2>7, NoneAssumption DEF ROB!lookup, ROB!matching_entry
  <2>11. ROB!lookup(consumer)' # None
    BY <2>8, NoneAssumption DEF ROB!lookup, ROB!matching_entry
  <2>12. operand.tag = producer
    BY <2>1 DEF waiting_operand
  <2> QED
    BY <2>3, <2>7, <2>9, <2>10, <2>11, <2>12 DEF awaited
<1> QED
  BY <1>2, <1>3

(* The operands of a new entry are immediate or read from the registers.   *)
LEMMA IssuedOperands ==
  ASSUME TypeOK, issue_outputs.rob # None
  PROVE  LET resolved(r) == Issue!resolve_register(r, source_state(r), broadcast)
             rs == issue_outputs.rs
             lsq == issue_outputs.lsq
         IN  /\ packet.decoded.rs1 \in RegisterIndex /\ packet.decoded.rs2 \in RegisterIndex
             /\ rs # None => /\ rs.lhs.ready \/ rs.lhs = resolved(packet.decoded.rs1)
                             /\ rs.rhs.ready \/ rs.rhs = resolved(packet.decoded.rs2)
             /\ lsq # None =>
                  /\ lsq.base = resolved(packet.decoded.rs1)
                  /\ lsq.store_data.ready \/ lsq.store_data = resolved(packet.decoded.rs2)
<1> DEFINE op == packet.decoded.op
           tag == ROB!next_tag
           rs1 == Issue!resolve_register(packet.decoded.rs1, source_state(packet.decoded.rs1), broadcast)
           rs2 == Issue!resolve_register(packet.decoded.rs2, source_state(packet.decoded.rs2), broadcast)
<1>1. packet \in Issue!DecodePacket /\ issue_outputs = issued(packet, ROB!next_tag)
  BY IssueWires
<1>2. packet.decoded.rs1 \in RegisterIndex /\ packet.decoded.rs2 \in RegisterIndex
  BY <1>1, SameRecords DEF DecodedInstruction
<1>3. /\ issue_outputs.rs # None => issue_outputs.rs = Issue!rs_entry(packet, tag, rs1, rs2)
      /\ issue_outputs.lsq # None => issue_outputs.lsq = Issue!lsq_entry(packet, tag, rs1, rs2)
  BY <1>1 DEF issued
<1> HIDE DEF rs1, rs2, tag
<1>4. LET entry == Issue!rs_entry(packet, tag, rs1, rs2)
      IN  /\ entry.lhs.ready \/ entry.lhs = rs1
          /\ entry.rhs.ready \/ entry.rhs = rs2
  BY DEF Issue!rs_entry, Issue!select_operand, Issue!ready_operand
<1>5. LET entry == Issue!lsq_entry(packet, tag, rs1, rs2)
      IN  /\ entry.base = rs1
          /\ entry.store_data.ready \/ entry.store_data = rs2
  BY DEF Issue!lsq_entry, Issue!ready_operand
<1>6. /\ issue_outputs.rs # None => /\ issue_outputs.rs.lhs.ready \/ issue_outputs.rs.lhs = rs1
                                    /\ issue_outputs.rs.rhs.ready \/ issue_outputs.rs.rhs = rs2
      /\ issue_outputs.lsq # None =>
           /\ issue_outputs.lsq.base = rs1
           /\ issue_outputs.lsq.store_data.ready \/ issue_outputs.lsq.store_data = rs2
  BY <1>3, <1>4, <1>5
<1> QED
  BY <1>2, <1>6 DEF rs1, rs2

LEMMA CycleKeepsWaiting == FlowInv /\ Cycle => WakeUpStillToCome'
<1> SUFFICES ASSUME FlowInv, Cycle PROVE WakeUpStillToCome'
  OBVIOUS
<1>1. TypeOK /\ WakeUpStillToCome
  BY FlowFacts DEF FlowInv
<1>2. ASSUME NEW operand, operand.ready, NEW consumer
      PROVE  awaited(operand, consumer)'
  BY <1>2 DEF awaited
<1>3. ASSUME NEW slot \in RS!Slot, rs_cur'[slot] # None
      PROVE  /\ awaited(rs_cur[slot].lhs, rs_cur[slot].destination)'
             /\ awaited(rs_cur[slot].rhs, rs_cur[slot].destination)'
  <2>1. ~flush
    BY <1>1, <1>3, CycleOfTheStations
  <2>2. PICK place \in Maybe(RS!Slot) :
          /\ place # None <=> issue_outputs.rs # None
          /\ place # None => rs_cur[place] = None \/ place = leaving
          /\ \A other \in RS!Slot :
               /\ other = place => rs_cur'[other] = issue_outputs.rs /\ rs_cur'[other] # None
               /\ other # place =>
                    (rs_cur'[other] # None <=> rs_cur[other] # None /\ other # leaving)
               /\ other # place /\ rs_cur'[other] # None => Wakes(rs_cur'[other], rs_cur[other])
    BY <1>1, <2>1, StationsFollow
  <2> PICK lhs : lhs = rs_cur'[slot].lhs
    OBVIOUS
  <2> PICK rhs : rhs = rs_cur'[slot].rhs
    OBVIOUS
  <2> PICK consumer : consumer = rs_cur'[slot].destination
    OBVIOUS
  <2>3. CASE slot # place
    <3>1. rs_cur[slot] # None /\ Wakes(rs_cur'[slot], rs_cur[slot])
      BY <1>3, <2>2, <2>3
    <3>2. /\ rs_cur[slot].lhs \in Operand /\ rs_cur[slot].rhs \in Operand
          /\ consumer = rs_cur[slot].destination /\ consumer \in RobTag
          /\ lhs = RS!wake_operand(rs_cur[slot].lhs, broadcast)
          /\ rhs = RS!wake_operand(rs_cur[slot].rhs, broadcast)
      <4>1. rs_cur[slot] \in RS!RSEntry
        BY <1>1, <3>1 DEF TypeOK, RsTypeOK, Maybe
      <4> QED
        BY <3>1, <4>1, SameRecords DEF Wakes
    <3>3. /\ Unfinished(consumer)
          /\ awaited(rs_cur[slot].lhs, consumer) /\ awaited(rs_cur[slot].rhs, consumer)
      BY <1>1, <3>1, <3>2, FlowFacts DEF StationsBacked, WakeUpStillToCome
    <3> PICK before_lhs \in Operand : before_lhs = rs_cur[slot].lhs
      BY <3>2
    <3> PICK before_rhs \in Operand : before_rhs = rs_cur[slot].rhs
      BY <3>2
    <3>4. awaited(lhs, consumer)' /\ awaited(rhs, consumer)'
      BY <2>1, <3>2, <3>3, WaitingGoesOn
    <3> QED
      BY <3>4
  <2>4. CASE slot = place
    <3>1. rs_cur'[slot] = issue_outputs.rs /\ issue_outputs.rs # None
      BY <2>2, <2>4
    <3>2. issue_outputs.rob # None
      BY <1>1, <3>1, IssueWires
    <3>3. consumer = ROB!next_tag
      BY <1>1, <3>1, <3>2, IssuedParts
    <3> PICK r1 \in RegisterIndex : r1 = packet.decoded.rs1
      BY <1>1, <3>2, IssuedOperands
    <3> PICK r2 \in RegisterIndex : r2 = packet.decoded.rs2
      BY <1>1, <3>2, IssuedOperands
    <3>4. /\ lhs.ready \/ lhs = Issue!resolve_register(r1, source_state(r1), broadcast)
          /\ rhs.ready \/ rhs = Issue!resolve_register(r2, source_state(r2), broadcast)
      BY <1>1, <3>1, <3>2, IssuedOperands
    <3>5. awaited(lhs, consumer)' /\ awaited(rhs, consumer)'
      BY <1>2, <2>1, <3>2, <3>3, <3>4, SourcesWait
    <3> QED
      BY <3>5
  <2> QED
    BY <2>3, <2>4
<1>4. ASSUME NEW slot \in LSQ!Slot, lsq_cur'[slot] # None
      PROVE  /\ awaited(lsq_cur[slot].base, lsq_cur[slot].destination)'
             /\ awaited(lsq_cur[slot].store_data, lsq_cur[slot].destination)'
  <2> PICK base : base = lsq_cur'[slot].base
    OBVIOUS
  <2> PICK data : data = lsq_cur'[slot].store_data
    OBVIOUS
  <2> PICK consumer : consumer = lsq_cur'[slot].destination
    OBVIOUS
  <2>1. ~flush
    BY <1>4, QueueFollows
  <2>2. CASE stays_queued(slot)
    <3> DEFINE old == lsq_cur[slot]
    <3>1. /\ old # None /\ old \in LSQ!LSQEntry
          /\ Continues(lsq_cur'[slot], old, slot = lsq_head /\ sends)
      BY <1>1, <2>2, FlowFacts, CycleOfTheQueue DEF stays_queued, TypeOK, LsqTypeOK, Maybe
    <3>2. \A operand : LSQ!wake_operand(operand, broadcast) = RS!wake_operand(operand, broadcast)
      BY DEF LSQ!wake_operand, RS!wake_operand, LSQ!ready_operand, RS!ready_operand
    <3>3. /\ old.base \in Operand /\ old.store_data \in Operand
          /\ consumer = old.destination /\ consumer \in RobTag
          /\ base = RS!wake_operand(old.base, broadcast)
          /\ data.ready \/ data = RS!wake_operand(old.store_data, broadcast)
      <4>1. /\ old.base \in Operand /\ old.store_data \in Operand /\ old.destination \in RobTag
        BY <3>1, SameRecords
      <4>2. is_store(old.op) \/ old.store_data.ready
        BY <3>1 DEF FlowInv, MemoryInv, RequestsAreFinal
      <4> QED
        BY <3>1, <3>2, <4>1, <4>2 DEF Continues
    <3>4. /\ Unfinished(consumer)
          /\ awaited(old.base, consumer) /\ awaited(old.store_data, consumer)
      BY <1>1, <3>1, <3>3, FlowFacts DEF QueueBacked, WakeUpStillToCome
    <3> PICK before_base \in Operand : before_base = old.base
      BY <3>3
    <3> PICK before_data \in Operand : before_data = old.store_data
      BY <3>3
    <3>5. awaited(base, consumer)' /\ awaited(data, consumer)'
      BY <1>2, <2>1, <3>3, <3>4, WaitingGoesOn
    <3> QED
      BY <3>5
  <2>3. CASE ~stays_queued(slot)
    <3>1. /\ issue_outputs.lsq # None /\ issue_outputs.rob # None
          /\ consumer = ROB!next_tag
          /\ base = issue_outputs.lsq.base /\ data = issue_outputs.lsq.store_data
      BY <1>4, <2>3, QueueFollows
    <3> PICK r1 \in RegisterIndex : r1 = packet.decoded.rs1
      BY <1>1, <3>1, IssuedOperands
    <3> PICK r2 \in RegisterIndex : r2 = packet.decoded.rs2
      BY <1>1, <3>1, IssuedOperands
    <3>2. /\ base = Issue!resolve_register(r1, source_state(r1), broadcast)
          /\ data.ready \/ data = Issue!resolve_register(r2, source_state(r2), broadcast)
      BY <1>1, <3>1, IssuedOperands
    <3>3. awaited(base, consumer)' /\ awaited(data, consumer)'
      BY <1>2, <2>1, <3>1, <3>2, SourcesWait
    <3> QED
      BY <3>3
  <2> QED
    BY <2>2, <2>3
<1> QED
  BY <1>3, <1>4 DEF WakeUpStillToCome

----------------------------------------------------------------------------
(* The invariants of the flow together. *)

LEMMA CyclePreserves == FlowInv /\ Cycle => FlowInv'
<1>1. FlowInv /\ Cycle => IInv' /\ FlightIsSound' /\ LsqContiguous'
  <2> SUFFICES ASSUME FlowInv, Cycle PROVE IInv' /\ FlightIsSound' /\ LsqContiguous'
    OBVIOUS
  <2>1. IInv'
    BY NextPreserves DEF FlowInv, Next
  <2>2. FlightIsSound' /\ LsqContiguous'
    BY FlowFacts, CycleKeepsFlight, CycleOfTheQueue
  <2> QED
    BY <2>1, <2>2
<1>2. FlowInv /\ Cycle => PlacesInv'
  BY <1>1, CycleKeepsStations, CycleKeepsQueue, CycleKeepsResults, CycleLosesNone DEF PlacesInv
<1>3. FlowInv /\ Cycle => MemoryInv'
  BY CycleKeepsRequests, CycleKeepsTiming, CycleKeepsTransaction, CycleKeepsResponse,
     CycleKeepsService DEF MemoryInv
<1> QED
  BY <1>1, <1>2, <1>3, CycleKeepsWaiting DEF FlowInv

(* A CPU that was made or loaded just now holds nothing.                   *)
NothingIsHeld ==
  /\ rs_cur = [slot \in RS!Slot |-> None] /\ fu_result = None
  /\ lsq_cur = [slot \in LSQ!Slot |-> None] /\ lsq_load_result = None
  /\ lsq_head = 0 /\ lsq_tail = 0 /\ lsq_count = 0
  /\ transaction = None /\ response = None

LEMMA NothingFlows == IInv /\ RingIsEmpty /\ NothingIsHeld => FlowInv
<1> SUFFICES ASSUME IInv, RingIsEmpty, NothingIsHeld PROVE FlowInv
  OBVIOUS
<1>1. LsqCapacity \in Nat \ {0}
  BY CPUAssumption
<1>2. LSQ!front = None /\ ~asked
  BY DEF NothingIsHeld, LSQ!front, LSQ!empty, asked
<1>3. LsqContiguous
  BY <1>1 DEF NothingIsHeld, LsqContiguous, lsq_age, LSQ!Slot
<1>4. StationsBacked /\ QueueBacked /\ ResultsBacked
  BY DEF NothingIsHeld, StationsBacked, QueueBacked, ResultsBacked
<1>5. StationsDiffer /\ QueueDiffers /\ ResultsDiffer
  BY DEF NothingIsHeld, StationsDiffer, QueueDiffers, ResultsDiffer
<1>6. NoneIsLost /\ FlightIsSound
  BY DEF RingIsEmpty, NoneIsLost, FlightIsSound
<1>7. MemoryInv
  BY <1>2 DEF NothingIsHeld, MemoryInv, RequestsAreFinal, RequestsAreTimely,
     TransactionIsKnown, ResponseIsKnown, RequestsAreServed
<1>8. WakeUpStillToCome
  BY DEF NothingIsHeld, WakeUpStillToCome
<1> QED
  BY <1>3, <1>4, <1>5, <1>6, <1>7, <1>8 DEF FlowInv, PlacesInv

LEMMA InitFlows == Init => FlowInv
<1>1. Init => NothingIsHeld
  BY SameSignals DEF Init, NothingIsHeld, RS!Init, RS!no_entries, LSQ!Init, LSQ!no_entries,
     FU!Init, MEM!Init
<1> QED
  BY <1>1, InitEstablishes, InitEmpties, NothingFlows

LEMMA LoadFlows == Load => FlowInv'
<1>1. Load => NothingIsHeld'
  BY SameSignals DEF Load, NothingIsHeld, RS!reset, RS!no_entries, LSQ!reset, LSQ!no_entries,
     FU!reset, MEM!load, MEM!reset
<1> QED
  BY <1>1, LoadEstablishes, LoadEmpties, NothingFlows, PTL

LEMMA StutterFlows == FlowInv /\ UNCHANGED vars => FlowInv'
<1> SUFFICES ASSUME FlowInv, UNCHANGED vars PROVE FlowInv'
  OBVIOUS
<1>1. IInv'
  BY StutterPreserves DEF FlowInv
<1>2. /\ rob_cur' = rob_cur /\ rob_generations' = rob_generations /\ rob_head' = rob_head
      /\ rob_count' = rob_count /\ rs_cur' = rs_cur /\ fu_result' = fu_result
      /\ lsq_cur' = lsq_cur /\ lsq_head' = lsq_head /\ lsq_tail' = lsq_tail
      /\ lsq_count' = lsq_count /\ lsq_load_result' = lsq_load_result
      /\ transaction' = transaction /\ response' = response /\ status' = status
  BY DEF vars, coreVars
<1>3. FlightIsSound'
  BY <1>2 DEF FlowInv, FlightIsSound
<1>4. LsqContiguous' /\ NoneIsLost'
  BY <1>2 DEF FlowInv, PlacesInv, LsqContiguous, lsq_age, NoneIsLost, InStations, InQueue
<1>5. StationsBacked' /\ QueueBacked' /\ ResultsBacked'
  BY <1>2 DEF FlowInv, PlacesInv, StationsBacked, QueueBacked, ResultsBacked, Unfinished,
     operation_of, ROB!matching_entry
<1>6. StationsDiffer' /\ QueueDiffers' /\ ResultsDiffer'
  BY <1>2 DEF FlowInv, PlacesInv, StationsDiffer, QueueDiffers, ResultsDiffer
<1>7. LSQ!front' = LSQ!front /\ ROB!front' = ROB!front /\ asked' = asked
  BY <1>2 DEF LSQ!front, LSQ!empty, ROB!front, ROB!empty, asked
<1>8. RequestsAreFinal' /\ RequestsAreTimely'
  BY <1>2, <1>7 DEF FlowInv, MemoryInv, RequestsAreFinal, RequestsAreTimely
<1>9. TransactionIsKnown' /\ ResponseIsKnown' /\ RequestsAreServed'
  BY <1>2, <1>7 DEF FlowInv, MemoryInv, TransactionIsKnown, ResponseIsKnown, RequestsAreServed,
     Abandoned, drift, LSQ!make_memory_request, LSQ!matching_response
<1>10. WakeUpStillToCome'
  BY <1>2 DEF FlowInv, WakeUpStillToCome, awaited, age, ROB!lookup, ROB!matching_entry
<1> QED
  BY <1>1, <1>3, <1>4, <1>5, <1>6, <1>8, <1>9, <1>10 DEF FlowInv, PlacesInv, MemoryInv

(* Where instructions are, what they wait for and whose requests memory    *)
(* serves stays as the invariants say, in every step of the CPU.           *)
THEOREM FlowInvariance == Spec => []FlowInv
<1>1. FlowInv /\ [MainNext]_vars => FlowInv'
  BY CyclePreserves, LoadFlows, StutterFlows DEF MainNext, LoadOnce
<1> QED
  BY <1>1, InitFlows, PTL DEF Spec

(* The broadcast that an operand waits for is still to come (issue_unit.   *)
(* cpp:26-31): its producer is older, in flight, unfinished and writes.    *)
THEOREM OperandsAreAwaited == Spec => []WakeUpStillToCome
BY FlowInvariance, PTL DEF FlowInv

(* What memory serves or answers for a store is the store at the head of   *)
(* the ring (load_store_queue.cpp, memory_unit.cpp), that nothing can      *)
(* flush any more.                                                         *)
LEMMA StoresAreHeads == FlowInv => StoresAreNonSpeculative
<1> SUFFICES ASSUME FlowInv PROVE StoresAreNonSpeculative
  OBVIOUS
<1>1. TransactionIsKnown /\ ResponseIsKnown /\ RequestsAreTimely /\ TypeOK
  BY FlowFacts DEF FlowInv, MemoryInv
<1>2. ASSUME transaction # None, transaction.request.is_store
      PROVE  ROB!front # None /\ ROB!front.tag = transaction.request.tag
  <2>1. asked /\ transaction.request = LSQ!make_memory_request(LSQ!front)
    BY <1>1, <1>2 DEF TransactionIsKnown
  <2>2. /\ transaction.request.is_store = is_store(LSQ!front.op)
        /\ transaction.request.tag = LSQ!front.destination
    BY <2>1, SameOperations DEF LSQ!make_memory_request
  <2> QED
    BY <1>1, <1>2, <2>1, <2>2 DEF RequestsAreTimely
<1>3. ASSUME response # None, response.is_store
      PROVE  ROB!front # None /\ ROB!front.tag = response.tag
  <2>1. asked /\ LSQ!matching_response(response)
    BY <1>1, <1>3 DEF ResponseIsKnown
  <2>2. is_store(LSQ!front.op) = response.is_store /\ LSQ!front.destination = response.tag
    BY <2>1, SameOperations DEF LSQ!matching_response
  <2> QED
    BY <1>1, <1>3, <2>1, <2>2 DEF RequestsAreTimely
<1> QED
  BY <1>2, <1>3 DEF StoresAreNonSpeculative

(* A store that memory is writing, or has just written, is the head of the *)
(* ring (cpu.cpp, preview_rob()): no flush or older fault can follow it.   *)
THEOREM StoresWaitForTheirTurn == Spec => []StoresAreNonSpeculative
BY FlowInvariance, StoresAreHeads, PTL

LEMMA AnswersMatch == FlowInv => AnswersMeetTheirRequests
<1> SUFFICES ASSUME FlowInv PROVE AnswersMeetTheirRequests
  OBVIOUS
<1>1. RequestsAreServed
  BY DEF FlowInv, MemoryInv
<1>2. LSQ!matching_response(response) => asked
  BY FlowFacts, AnswersWereAsked
<1> QED
  BY <1>1, <1>2 DEF AnswersMeetTheirRequests, RequestsAreServed, asked

(* The answer visible for one cycle (memory_unit.cpp:157-160) is to the    *)
(* request of the head that accepts it, and a head that has asked is       *)
(* served or answered: no answer is missed and none is to a flushed load.  *)
THEOREM AnswersAreToTheAsker == Spec => []AnswersMeetTheirRequests
BY FlowInvariance, AnswersMatch, PTL

----------------------------------------------------------------------------
(* Each instruction is in one place.                                       *)

LEMMA PlacesOf ==
  ASSUME FlowInv, NEW slot \in RobIndex, rob_cur[slot] # None
  PROVE  /\ rob_cur[slot].ready => places(rob_cur[slot].tag) = {}
         /\ ~rob_cur[slot].ready => \E place : places(rob_cur[slot].tag) = {place}
<1> PICK tag : tag = rob_cur[slot].tag
  OBVIOUS
<1> DEFINE op == rob_cur[slot].op
           AtStation(s) == rs_cur[s] # None /\ rs_cur[s].destination = tag
           AtQueue(s) == lsq_cur[s] # None /\ lsq_cur[s].destination = tag
           AtUnit == fu_result # None /\ fu_result.tag = tag
           AtBuffer == lsq_load_result # None /\ lsq_load_result.tag = tag
<1>1. tag.index = slot
  BY FlowFacts, TagTellsSlot
<1>2. Unfinished(tag) => ~rob_cur[slot].ready
  BY <1>1 DEF Unfinished
<1>3. operation_of(tag) = op
  BY <1>1 DEF operation_of
<1>4. /\ \A s \in RS!Slot : AtStation(s) => Unfinished(tag) /\ Issue!need_rs(op)
      /\ \A s \in LSQ!Slot : AtQueue(s) => Unfinished(tag) /\ Issue!need_lsq(op)
      /\ AtUnit => Unfinished(tag) /\ Issue!need_rs(op)
      /\ AtBuffer => Unfinished(tag) /\ is_load(op)
  BY <1>3, FlowFacts DEF StationsBacked, QueueBacked, ResultsBacked
<1>5. places(tag) =
        {<<"RS", s>> : s \in {t \in RS!Slot : AtStation(t)}}
        \cup {<<"LSQ", s>> : s \in {t \in LSQ!Slot : AtQueue(t)}}
        \cup (IF AtUnit THEN {<<"FU", 0>>} ELSE {})
        \cup (IF AtBuffer THEN {<<"Load", 0>>} ELSE {})
  BY DEF places
<1>6. /\ \A s, t \in RS!Slot : AtStation(s) /\ AtStation(t) => s = t
      /\ \A s, t \in LSQ!Slot : AtQueue(s) /\ AtQueue(t) => s = t
      /\ \A s \in RS!Slot : AtStation(s) => ~AtUnit
      /\ \A s \in LSQ!Slot : AtQueue(s) => ~AtBuffer
  BY FlowFacts DEF StationsDiffer, QueueDiffers, ResultsDiffer
<1>7. ~rob_cur[slot].ready =>
        IF Issue!need_rs(op) THEN (\E s \in RS!Slot : AtStation(s)) \/ AtUnit
        ELSE (\E s \in LSQ!Slot : AtQueue(s)) \/ AtBuffer
  BY DEF FlowInv, PlacesInv, NoneIsLost, InStations, InQueue
<1>8. /\ Issue!need_lsq(op) => ~Issue!need_rs(op)
      /\ is_load(op) => ~Issue!need_rs(op)
  BY Kinds
<1> HIDE DEF op, AtStation, AtQueue, AtUnit, AtBuffer
<1>9. CASE rob_cur[slot].ready
  BY <1>2, <1>4, <1>5, <1>9
<1>10. CASE ~rob_cur[slot].ready /\ Issue!need_rs(op)
  <2>1. (\A s \in LSQ!Slot : ~AtQueue(s)) /\ ~AtBuffer
    BY <1>4, <1>8, <1>10
  <2>2. CASE AtUnit
    <3>1. \A s \in RS!Slot : ~AtStation(s)
      BY <1>6, <2>2
    <3>2. places(tag) = {<<"FU", 0>>}
      BY <1>5, <2>1, <2>2, <3>1
    <3> QED
      BY <1>10, <3>2
  <2>3. CASE ~AtUnit
    <3>1. PICK s \in RS!Slot : AtStation(s)
      BY <1>7, <1>10, <2>3
    <3>2. {t \in RS!Slot : AtStation(t)} = {s}
      BY <1>6, <3>1
    <3>3. places(tag) = {<<"RS", s>>}
      BY <1>5, <2>1, <2>3, <3>2
    <3> QED
      BY <1>10, <3>3
  <2> QED
    BY <2>2, <2>3
<1>11. CASE ~rob_cur[slot].ready /\ ~Issue!need_rs(op)
  <2>1. (\A s \in RS!Slot : ~AtStation(s)) /\ ~AtUnit
    BY <1>4, <1>11
  <2>2. CASE AtBuffer
    <3>1. \A s \in LSQ!Slot : ~AtQueue(s)
      BY <1>6, <2>2
    <3>2. places(tag) = {<<"Load", 0>>}
      BY <1>5, <2>1, <2>2, <3>1
    <3> QED
      BY <1>11, <3>2
  <2>3. CASE ~AtBuffer
    <3>1. PICK s \in LSQ!Slot : AtQueue(s)
      BY <1>7, <1>11, <2>3
    <3>2. {t \in LSQ!Slot : AtQueue(t)} = {s}
      BY <1>6, <3>1
    <3>3. places(tag) = {<<"LSQ", s>>}
      BY <1>5, <2>1, <2>3, <3>2
    <3> QED
      BY <1>11, <3>3
  <2> QED
    BY <2>2, <2>3
<1> QED
  BY <1>9, <1>10, <1>11

LEMMA EachIsSomewhere == FlowInv => OnePlaceEach
<1> SUFFICES ASSUME FlowInv, NEW slot \in RobIndex, rob_cur[slot] # None
             PROVE  Cardinality(places(rob_cur[slot].tag))
                      = IF rob_cur[slot].ready THEN 0 ELSE 1
  BY DEF OnePlaceEach
<1>1. Cardinality({}) = 0 /\ \A place : Cardinality({place}) = 1
  BY FS_EmptySet, FS_Singleton
<1> QED
  BY <1>1, PlacesOf

(* cpu.cpp:296-376 hands one instruction to several components: while it   *)
(* is unfinished exactly one of them has it, and none once it is finished, *)
(* so that it is executed once and never waits for a result that was lost. *)
THEOREM NoneLostNoneTwice == Spec => []OnePlaceEach
BY FlowInvariance, EachIsSomewhere, PTL

----------------------------------------------------------------------------
(* What one component sends, the other takes.                              *)

(* The station frees a slot for the new instruction, or had one. *)
LEMMA StationAccepts ==
  ASSUME TypeOK, ~flush, issue_outputs.rs # None
  PROVE  RS!issue_accepted(issue_outputs.rs, broadcast, fu_available, flush)
<1> DEFINE left == RS!remaining(broadcast, fu_available)
<1>1. broadcast \in Maybe(CDBMsg) /\ fu_available \in BOOLEAN
  BY Bus DEF fu_available, FU!can_accept
<1>2. RS!available
  <2>1. issue_outputs.rob # None
    BY IssueWires
  <2> QED
    BY <2>1, IssuedParts
<1>3. \E slot \in RS!Slot : left[slot] = None
  <2>1. \A slot \in RS!Slot : left[slot] # None => rs_cur[slot] # None
    BY <1>1, StationRemaining
  <2> QED
    BY <1>2, <2>1 DEF RS!available
<1> HIDE DEF left
<1>4. RS!find_free_index(left) # None
  BY <1>3, FreeIndex
<1> QED
  BY <1>4 DEF RS!issue_accepted, left

(* What the station dispatches, the free unit can execute. *)
LEMMA UnitAccepts ==
  ASSUME FlowInv, dispatch # None, fu_available
  PROVE  FU!accepts(dispatch, flush, integer_granted)
<1> DEFINE entry == rs_cur[RS!select_ready_index]
<1>1. TypeOK /\ StationsBacked /\ FlightIsSound
  BY FlowFacts
<1>2. ~flush /\ RS!select_ready_index # None /\ dispatch = RS!make_execute(entry)
  BY DEF dispatch, RS!dispatch
<1> PICK slot \in RS!Slot : slot = RS!select_ready_index /\ rs_cur[slot] # None
  BY <1>1, <1>2, Selection DEF RS!ready_slots, Maybe
<1>3. /\ Issue!need_rs(entry.op) /\ Unfinished(entry.destination)
      /\ entry.op = operation_of(entry.destination)
  BY <1>1 DEF StationsBacked
<1>4. entry.op # "INVALID"
  <2>1. entry.destination \in RobTag
    BY <1>1, SameRecords DEF TypeOK, RsTypeOK, Maybe
  <2>2. entry.destination.index \in RobIndex /\ rob_cur[entry.destination.index] # None
    BY <1>3, <2>1 DEF RobTag, Unfinished, ROB!matching_entry
  <2> QED
    BY <1>1, <1>3, <2>2 DEF FlightIsSound, operation_of
<1>5. dispatch.op = entry.op
  BY <1>2 DEF RS!make_execute
<1>6. FU!can_accept(integer_granted)
  BY DEF fu_available
<1> QED
  BY <1>2, <1>3, <1>4, <1>5, <1>6, Executables DEF FU!accepts

(* Memory's answer to a load finds the buffer it asked for still free.     *)
LEMMA BufferAccepts ==
  ASSUME FlowInv, LSQ!completed_load_result(response, flush) # None
  PROVE  lsq_load_result = None
<1>1. LSQ!remove_head(response, flush) /\ LSQ!is_load(LSQ!front.op)
  BY DEF LSQ!completed_load_result
<1>2. LSQ!matching_response(response)
  BY <1>1 DEF LSQ!remove_head
<1>3. asked
  BY <1>2, FlowFacts, AnswersWereAsked
<1>4. is_load(LSQ!front.op)
  BY <1>1, SameOperations
<1> QED
  BY <1>3, <1>4 DEF FlowInv, MemoryInv, RequestsAreTimely

LEMMA AllAccept == FlowInv => AssertionsHold
<1> SUFFICES ASSUME FlowInv PROVE AssertionsHold
  OBVIOUS
<1>1. TypeOK /\ LsqContiguous
  BY FlowFacts
<1>2. ASSUME issue_outputs.status = "Issued", ~ROB!flush
      PROVE  /\ ROB!accepts(issue_outputs.rob)
             /\ issue_outputs.rs # None =>
                  RS!issue_accepted(issue_outputs.rs, broadcast, fu_available, flush)
             /\ issue_outputs.lsq # None => LSQ!accepts(issue_outputs.lsq)
  <2>1. ~flush
    BY <1>1, <1>2, RobHead
  <2>2. issue_outputs.rob # None
    BY <1>1, <1>2, IssueWires
  <2> QED
    BY <1>1, <2>1, <2>2, IssuedEntry, StationAccepts, HeadOfTheQueue
<1>3. dispatch # None /\ fu_available => FU!accepts(dispatch, flush, integer_granted)
  BY UnitAccepts
<1>4. memory_request # None => MEM!accepts(memory_request)
  BY DEF memory_request, LSQ!memory_request, MEM!data_port_available, MEM!accepts
<1>5. LSQ!completed_load_result(response, flush) # None => lsq_load_result = None
  BY BufferAccepts
<1> QED
  BY <1>2, <1>3, <1>4, <1>5 DEF AssertionsHold

(* The assertions of cpu.cpp:421-437, load_store_queue.cpp:255 and         *)
(* functional_unit.cpp:211 never fail: what one component decides to send  *)
(* from the latched state, the component it sends it to takes.             *)
THEOREM NoAssertionFails == Spec => []AssertionsHold
BY FlowInvariance, AllAccept, PTL
=============================================================================
