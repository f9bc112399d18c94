------------------------ MODULE ReorderBufferProofs ------------------------
(***************************************************************************)
(* Proofs, for every capacity, generation range and sequence of calls, of  *)
(* what ReorderBuffer states.                                    *)
(***************************************************************************)
EXTENDS ReorderBuffer, TLAPS

(* The three invariants support each other: a slot's tag leads back to it  *)
(* only while the ring is contiguous, and the ring stays contiguous only   *)
(* because the head and the tail stay in range.                            *)
IInv == TypeOK /\ RingIsContiguous /\ TagsNameTheirSlots

Entries == [RobIndex -> Maybe(ROBEntry)]

(* What recording results may not change: which slots are taken, by whom.  *)
SameOccupants(entries) ==
  /\ entries \in Entries
  /\ \A slot \in RobIndex :
       /\ entries[slot] # None <=> cur[slot] # None
       /\ cur[slot] # None => entries[slot].tag = cur[slot].tag

----------------------------------------------------------------------------
(* Going round the ring. *)
LEMMA FollowingSlot ==
  ASSUME NEW slot \in RobIndex
  PROVE  /\ following_slot(slot) \in RobIndex
         /\ following_slot(slot) = IF slot + 1 = RobCapacity THEN 0 ELSE slot + 1
<1>1. RobCapacity \in Nat /\ RobCapacity > 0
  BY SignalsAssumption
<1>2. slot \in Nat /\ slot + 1 <= RobCapacity
  BY <1>1 DEF RobIndex
<1>3. CASE slot + 1 = RobCapacity
  <2>1. (slot + 1) % RobCapacity = 0
    BY <1>1, <1>2, <1>3
  <2> QED
    BY <2>1, <1>1, <1>3 DEF following_slot, RobIndex
<1>4. CASE slot + 1 # RobCapacity
  <2>1. (slot + 1) % RobCapacity = slot + 1
    BY <1>1, <1>2, <1>4
  <2> QED
    BY <2>1, <1>1, <1>2, <1>4 DEF following_slot, RobIndex
<1> QED
  BY <1>3, <1>4

(* The next generation of a slot is another one. *)
LEMMA FollowingGeneration ==
  ASSUME NEW generation \in TagGeneration
  PROVE  /\ following_generation(generation) \in TagGeneration
         /\ following_generation(generation) # generation
<1>1. GenerationSize \in Nat /\ GenerationSize > 1
  BY SignalsAssumption
<1>2. generation \in Nat /\ generation + 1 <= GenerationSize
  BY <1>1 DEF TagGeneration
<1>3. CASE generation + 1 = GenerationSize
  <2>1. (generation + 1) % GenerationSize = 0
    BY <1>1, <1>2, <1>3
  <2> QED
    BY <2>1, <1>1, <1>2, <1>3 DEF following_generation, TagGeneration
<1>4. CASE generation + 1 # GenerationSize
  <2>1. (generation + 1) % GenerationSize = generation + 1
    BY <1>1, <1>2, <1>4
  <2> QED
    BY <2>1, <1>1, <1>2, <1>4 DEF following_generation, TagGeneration
<1> QED
  BY <1>3, <1>4

----------------------------------------------------------------------------
(* Recording results. *)
LEMMA CompletionKeepsOccupants ==
  ASSUME TypeOK, NEW completion \in Maybe(FUResult)
  PROVE  SameOccupants(apply_completion(cur, completion))
<1>1. SameOccupants(cur)
  BY DEF TypeOK, SameOccupants, Entries
<1>2. CASE completion = None \/ ~matching_entry(completion.tag, cur)
  BY <1>1, <1>2 DEF apply_completion
<1>3. CASE ~(completion = None \/ ~matching_entry(completion.tag, cur))
  <2> DEFINE index == completion.tag.index
             result == apply_completion(cur, completion)
  <2>1. completion \in FUResult /\ index \in RobIndex
    BY <1>3 DEF Maybe, FUResult, RobTag
  <2>2. cur[index] \in ROBEntry
    BY <1>3, <2>1 DEF matching_entry, TypeOK, Maybe
  <2>3. result[index] \in ROBEntry /\ result[index].tag = cur[index].tag
    BY <1>3, <2>1, <2>2 DEF apply_completion, with_result, TypeOK, ROBEntry, FUResult
  <2>4. \A slot \in RobIndex \ {index} : result[slot] = cur[slot]
    BY <1>3, <2>1 DEF apply_completion, TypeOK
  <2>5. result \in Entries
    BY <1>3, <2>1, <2>3, <2>4 DEF apply_completion, TypeOK, Entries, Maybe
  <2> QED
    BY <2>2, <2>3, <2>4, <2>5, EntryAssumption DEF SameOccupants
<1> QED
  BY <1>2, <1>3

LEMMA StoreCompletionKeepsOccupants ==
  ASSUME TypeOK, NEW entries, SameOccupants(entries), NEW tag \in Maybe(RobTag)
  PROVE  SameOccupants(apply_store_completion(entries, tag))
<1>1. CASE ~matching_entry(tag, cur) \/ ~is_store(entries[tag.index].op)
  BY <1>1 DEF apply_store_completion
<1>2. CASE matching_entry(tag, cur) /\ is_store(entries[tag.index].op)
  <2> DEFINE index == tag.index
             result == apply_store_completion(entries, tag)
  <2>1. index \in RobIndex
    BY <1>2 DEF matching_entry, Maybe, RobTag
  <2>2. entries[index] \in ROBEntry /\ cur[index] # None
    BY <1>2, <2>1 DEF matching_entry, SameOccupants, Entries, Maybe
  <2>3. result[index] \in ROBEntry /\ result[index].tag = entries[index].tag
    BY <1>2, <2>1, <2>2 DEF apply_store_completion, SameOccupants, Entries, ROBEntry
  <2>4. \A slot \in RobIndex \ {index} : result[slot] = entries[slot]
    BY <1>2, <2>1 DEF apply_store_completion, SameOccupants, Entries
  <2>5. result \in Entries
    BY <1>2, <2>1, <2>3, <2>4 DEF apply_store_completion, SameOccupants, Entries, Maybe
  <2> QED
    BY <2>2, <2>3, <2>4, <2>5, EntryAssumption DEF SameOccupants
<1> QED
  BY <1>1, <1>2

(* Nothing commits from an empty ring. *)
LEMMA CommitTakesTheHead ==
  commit # None => count # 0 /\ cur[head] # None
BY DEF commit, front, empty

(* The distance after the head has moved on one slot. *)
LEMMA DistanceBehindTheHead ==
  ASSUME TypeOK, head' = following_slot(head), NEW slot \in RobIndex
  PROVE  distance(slot)' = IF slot = head THEN RobCapacity - 1 ELSE distance(slot) - 1
<1>1. RobCapacity \in Nat /\ RobCapacity > 0
  BY SignalsAssumption
<1>2. head \in RobIndex
  BY DEF TypeOK
<1>3. head' = IF head + 1 = RobCapacity THEN 0 ELSE head + 1
  BY <1>2, FollowingSlot
<1> QED
  BY <1>1, <1>2, <1>3 DEF distance, RobIndex

(* While there is room, the tail is the only slot count behind the head. *)
LEMMA TailIsNext ==
  ASSUME TypeOK, RingIsContiguous, ~full, NEW slot \in RobIndex
  PROVE  distance(slot) = count <=> slot = tail
<1>1. RobCapacity \in Nat /\ RobCapacity > 0
  BY SignalsAssumption
<1>2. head \in RobIndex /\ count \in 0 .. RobCapacity /\ count # RobCapacity
  BY DEF TypeOK, full
<1> QED
  BY <1>1, <1>2 DEF distance, RingIsContiguous, RobIndex

(* Nothing is out of the ring's reach. *)
LEMMA DistanceRange ==
  ASSUME TypeOK, NEW slot \in RobIndex
  PROVE  distance(slot) \in RobIndex
BY SignalsAssumption DEF TypeOK, distance, RobIndex

----------------------------------------------------------------------------
(* Each way a cycle can change the ring. *)

LEMMA InitEstablishes == Init => IInv
<1> SUFFICES ASSUME Init PROVE IInv
  OBVIOUS
<1>1. RobCapacity \in Nat /\ RobCapacity > 0 /\ 0 \in RobIndex /\ 0 \in TagGeneration
  BY SignalsAssumption DEF RobIndex, TagGeneration
<1>2. TypeOK
  BY <1>1 DEF Init, TypeOK, Maybe
<1>3. RingIsContiguous
  <2>1. \A slot \in RobIndex : ~(distance(slot) < count)
    BY <1>2, DistanceRange, <1>1 DEF Init, RobIndex
  <2> QED
    BY <1>1, <2>1 DEF Init, RingIsContiguous
<1>4. TagsNameTheirSlots
  BY DEF Init, TagsNameTheirSlots
<1> QED
  BY <1>2, <1>3, <1>4 DEF IInv

LEMMA ResetEstablishes == reset => IInv'
<1> SUFFICES ASSUME reset PROVE IInv'
  OBVIOUS
<1>1. RobCapacity \in Nat /\ RobCapacity > 0 /\ 0 \in RobIndex /\ 0 \in TagGeneration
  BY SignalsAssumption DEF RobIndex, TagGeneration
<1>2. TypeOK'
  BY <1>1 DEF reset, TypeOK, Maybe
<1>3. RingIsContiguous'
  BY <1>1 DEF reset, RingIsContiguous, distance, RobIndex
<1>4. TagsNameTheirSlots'
  BY DEF reset, TagsNameTheirSlots
<1> QED
  BY <1>2, <1>3, <1>4 DEF IInv

LEMMA FlushPreserves == IInv /\ clear_speculative_entries => IInv'
<1> SUFFICES ASSUME IInv, clear_speculative_entries PROVE IInv'
  OBVIOUS
<1>1. RobCapacity \in Nat /\ RobCapacity > 0
  BY SignalsAssumption
<1>2. head' \in RobIndex /\ tail' = head' /\ count' = 0
  BY FollowingSlot DEF clear_speculative_entries, IInv, TypeOK
<1>3. TypeOK'
  BY <1>1, <1>2 DEF clear_speculative_entries, IInv, TypeOK, Maybe
<1>4. RingIsContiguous'
  BY <1>1, <1>2 DEF clear_speculative_entries, RingIsContiguous, distance, RobIndex
<1>5. TagsNameTheirSlots'
  BY DEF clear_speculative_entries, TagsNameTheirSlots
<1> QED
  BY <1>3, <1>4, <1>5 DEF IInv

(* Committing the head, in a cycle that issues nothing. *)
LEMMA RetirePreserves ==
  ASSUME IInv, NEW entries, SameOccupants(entries), commit # None,
         head' = following_slot(head), cur' = retire(entries),
         count' = count - 1, UNCHANGED <<generations, tail>>
  PROVE  IInv'
<1>1. RobCapacity \in Nat /\ RobCapacity > 0
  BY SignalsAssumption
<1>2. TypeOK /\ RingIsContiguous /\ TagsNameTheirSlots
  BY DEF IInv
<1>3. count \in Nat /\ count > 0 /\ count <= RobCapacity /\ head \in RobIndex
  BY <1>1, <1>2, CommitTakesTheHead DEF TypeOK
<1>4. cur' = [entries EXCEPT ![head] = None]
  BY DEF retire
<1>5. TypeOK'
  <2>1. cur' \in Entries
    BY <1>4 DEF SameOccupants, Entries, Maybe
  <2>2. head' \in RobIndex /\ count' \in 0 .. RobCapacity
    BY <1>1, <1>3, FollowingSlot
  <2> QED
    BY <1>2, <2>1, <2>2 DEF TypeOK, Entries
<1>6. \A slot \in RobIndex : cur'[slot] # None <=> (slot # head /\ cur[slot] # None)
  BY <1>3, <1>4 DEF SameOccupants, Entries
<1>7. RingIsContiguous'
  <2>1. ASSUME NEW slot \in RobIndex
        PROVE  cur'[slot] # None <=> distance(slot)' < count'
    <3>1. distance(slot)' = IF slot = head THEN RobCapacity - 1 ELSE distance(slot) - 1
      BY <1>2, DistanceBehindTheHead
    <3>2. distance(slot) \in Nat /\ (cur[slot] # None <=> distance(slot) < count)
      BY <1>1, <1>2, DistanceRange DEF RingIsContiguous, RobIndex
    <3> QED
      BY <1>1, <1>3, <1>6, <3>1, <3>2
  <2>2. head' = IF head + 1 = RobCapacity THEN 0 ELSE head + 1
    BY <1>3, FollowingSlot
  <2>3. tail' = IF head' + count' >= RobCapacity THEN head' + count' - RobCapacity
                ELSE head' + count'
    BY <1>1, <1>2, <1>3, <2>2 DEF RingIsContiguous, RobIndex
  <2> QED
    BY <2>1, <2>3 DEF RingIsContiguous
<1>8. TagsNameTheirSlots'
  BY <1>2, <1>3, <1>4, <1>6 DEF TagsNameTheirSlots, SameOccupants, Entries
<1> QED
  BY <1>5, <1>7, <1>8 DEF IInv

(* Recording results alone. *)
LEMMA RecordPreserves ==
  ASSUME IInv, NEW entries, SameOccupants(entries), cur' = entries,
         UNCHANGED <<head, tail, count, generations>>
  PROVE  IInv'
<1>1. TypeOK'
  BY DEF IInv, TypeOK, SameOccupants, Entries
<1>2. RingIsContiguous'
  BY DEF IInv, RingIsContiguous, distance, SameOccupants
<1>3. TagsNameTheirSlots'
  BY DEF IInv, TagsNameTheirSlots, SameOccupants
<1> QED
  BY <1>1, <1>2, <1>3 DEF IInv

(* Whatever a cycle does at the head, an entry it accepts takes the tail.  *)
LEMMA IssuePreserves ==
  ASSUME IInv, NEW entries, SameOccupants(entries),
         NEW issue_entry \in ROBEntry, accepts(issue_entry),
         cur' = [retire(entries) EXCEPT ![tail] = issue_entry],
         generations' = [generations EXCEPT ![tail] = issue_entry.tag.generation],
         tail' = following_slot(tail),
         head' = (IF commit = None THEN head ELSE following_slot(head)),
         count' = (IF commit = None THEN count ELSE count - 1) + 1
  PROVE  IInv'
<1>1. RobCapacity \in Nat /\ RobCapacity > 0
  BY SignalsAssumption
<1>2. TypeOK /\ RingIsContiguous /\ TagsNameTheirSlots
  BY DEF IInv
<1>3. /\ head \in RobIndex /\ tail \in RobIndex
      /\ count \in Nat /\ count < RobCapacity /\ (commit # None => count > 0)
  BY <1>1, <1>2, CommitTakesTheHead DEF TypeOK, accepts, full
<1>4. /\ issue_entry # None
      /\ issue_entry.tag.index = tail
      /\ issue_entry.tag.generation = following_generation(generations[tail])
      /\ issue_entry.tag = [index |-> tail,
                            generation |-> following_generation(generations[tail])]
  BY DEF accepts, next_tag
<1>5. generations[tail] \in TagGeneration
  BY <1>2, <1>3 DEF TypeOK
<1>6. TypeOK'
  <2>1. cur' \in Entries
    BY <1>3 DEF retire, SameOccupants, Entries, Maybe
  <2>2. generations' \in [RobIndex -> TagGeneration]
    BY <1>2, <1>4, <1>5, FollowingGeneration DEF TypeOK
  <2>3. head' \in RobIndex /\ tail' \in RobIndex
    BY <1>3, FollowingSlot
  <2>4. count' \in 0 .. RobCapacity
    BY <1>1, <1>3
  <2> QED
    BY <2>1, <2>2, <2>3, <2>4 DEF TypeOK, Entries
<1>7. \A slot \in RobIndex :
        cur'[slot] # None <=>
          \/ slot = tail
          \/ cur[slot] # None /\ (commit # None => slot # head)
  BY <1>3, <1>4 DEF retire, SameOccupants, Entries
<1>8. RingIsContiguous'
  <2>1. ASSUME NEW slot \in RobIndex
        PROVE  cur'[slot] # None <=> distance(slot)' < count'
    <3>1. distance(slot)' = IF commit = None THEN distance(slot)
                            ELSE IF slot = head THEN RobCapacity - 1
                            ELSE distance(slot) - 1
      BY <1>2, DistanceBehindTheHead DEF distance
    <3>2. distance(slot) \in Nat /\ distance(slot) >= 0 /\ distance(slot) < RobCapacity
      BY <1>1, <1>2, DistanceRange DEF RobIndex
    <3>3. cur[slot] # None <=> distance(slot) < count
      BY <1>2 DEF RingIsContiguous
    <3>4. distance(slot) = count <=> slot = tail
      BY <1>2, TailIsNext DEF accepts
    <3>5. slot = head => distance(slot) = 0
      BY <1>1, <1>3 DEF distance, RobIndex
    <3> QED
      BY <1>1, <1>3, <1>7, <3>1, <3>2, <3>3, <3>4, <3>5
  <2>2. head' = IF commit = None THEN head
                ELSE IF head + 1 = RobCapacity THEN 0 ELSE head + 1
    BY <1>3, FollowingSlot
  <2>3. tail' = IF tail + 1 = RobCapacity THEN 0 ELSE tail + 1
    BY <1>3, FollowingSlot
  <2>4. tail' = IF head' + count' >= RobCapacity THEN head' + count' - RobCapacity
                ELSE head' + count'
    BY <1>1, <1>2, <1>3, <2>2, <2>3 DEF RingIsContiguous, RobIndex
  <2> QED
    BY <2>1, <2>4 DEF RingIsContiguous
<1>9. TagsNameTheirSlots'
  <2> SUFFICES ASSUME NEW slot \in RobIndex, cur'[slot] # None
               PROVE  cur'[slot].tag = [index |-> slot, generation |-> generations'[slot]]
    BY DEF TagsNameTheirSlots
  <2>1. CASE slot = tail
    BY <1>2, <1>3, <1>4, <2>1 DEF retire, SameOccupants, Entries, TypeOK
  <2>2. CASE slot # tail
    <3>1. cur[slot] # None /\ generations'[slot] = generations[slot]
      BY <1>2, <1>3, <1>7, <2>2 DEF TypeOK
    <3>2. cur'[slot] = entries[slot]
      BY <1>3, <1>7, <2>2, <3>1 DEF retire, SameOccupants, Entries
    <3> QED
      BY <1>2, <3>1, <3>2 DEF TagsNameTheirSlots, SameOccupants
  <2> QED
    BY <2>1, <2>2
<1> QED
  BY <1>6, <1>8, <1>9 DEF IInv

----------------------------------------------------------------------------
(* A cycle without a flush is one of the three. *)
LEMMA AdvancePreserves ==
  ASSUME IInv, NEW issue_entry \in Maybe(ROBEntry), NEW completion \in Maybe(FUResult),
         NEW store_completion \in Maybe(RobTag),
         advance(issue_entry, completion, store_completion)
  PROVE  IInv'
<1> DEFINE recorded ==
      apply_store_completion(apply_completion(cur, completion), store_completion)
<1>1. SameOccupants(recorded)
  BY CompletionKeepsOccupants, StoreCompletionKeepsOccupants DEF IInv
<1>2. CASE accepts(issue_entry)
  <2>1. issue_entry \in ROBEntry
    BY <1>2 DEF accepts, Maybe
  <2> HIDE DEF recorded
  <2>2. /\ cur' = [retire(recorded) EXCEPT ![tail] = issue_entry]
        /\ generations' = [generations EXCEPT ![tail] = issue_entry.tag.generation]
        /\ tail' = following_slot(tail)
        /\ head' = IF commit = None THEN head ELSE following_slot(head)
        /\ count' = (IF commit = None THEN count ELSE count - 1) + 1
    BY <1>2 DEF advance, recorded
  <2> QED
    BY <1>1, <1>2, <2>1, <2>2, IssuePreserves
<1>3. CASE ~accepts(issue_entry) /\ commit # None
  <2> HIDE DEF recorded
  <2>1. /\ cur' = retire(recorded) /\ head' = following_slot(head)
        /\ count' = count - 1 /\ UNCHANGED <<generations, tail>>
    BY <1>3 DEF advance, recorded
  <2> QED
    BY <1>1, <1>3, <2>1, RetirePreserves
<1>4. CASE ~accepts(issue_entry) /\ commit = None
  <2> HIDE DEF recorded
  <2>1. cur' = recorded /\ UNCHANGED <<head, tail, count, generations>>
    BY <1>4 DEF advance, retire, recorded
  <2> QED
    BY <1>1, <2>1, RecordPreserves
<1> QED
  BY <1>2, <1>3, <1>4

LEMMA NextPreserves == IInv /\ [Next]_robVars => IInv'
<1> SUFFICES ASSUME IInv, [Next]_robVars PROVE IInv'
  OBVIOUS
<1>1. ASSUME NEW issue_entry \in Maybe(ROBEntry), NEW completion \in Maybe(FUResult),
             NEW store_completion \in Maybe(RobTag),
             apply(issue_entry, completion, store_completion)
      PROVE  IInv'
  <2>1. CASE flush /\ clear_speculative_entries
    BY <2>1, FlushPreserves
  <2>2. CASE ~flush /\ advance(issue_entry, completion, store_completion)
    BY <2>2, AdvancePreserves
  <2> QED
    BY <1>1, <2>1, <2>2 DEF apply
<1>2. CASE reset
  BY <1>2, ResetEstablishes
<1>3. CASE UNCHANGED robVars
  BY <1>3 DEF robVars, IInv, TypeOK, RingIsContiguous, TagsNameTheirSlots, distance
<1> QED
  BY <1>1, <1>2, <1>3 DEF Next

(* The ring's inductive invariant holds of every history of calls.         *)
THEOREM Invariance == Spec => []IInv
<1>1. Init => IInv
  BY InitEstablishes
<1>2. IInv /\ [Next]_robVars => IInv'
  BY NextPreserves
<1> QED
  BY <1>1, <1>2, PTL DEF Spec

(* The latches of reorder_buffer.hpp:109-124 keep their types: the head    *)
(* and tail of the ring are always slots, the count never exceeds them.    *)
THEOREM TypeCorrect == Spec => []TypeOK
<1>1. IInv => TypeOK
  BY DEF IInv
<1> QED
  BY <1>1, Invariance, PTL

(* Whatever is issued, recorded, committed, flushed or reset, exactly the  *)
(* count slots from the head on are taken (reorder_buffer.cpp:135-167,     *)
(* 211-219).                                                               *)
THEOREM RingStaysContiguous == Spec => []RingIsContiguous
<1>1. IInv => RingIsContiguous
  BY DEF IInv
<1> QED
  BY <1>1, Invariance, PTL

(* The tag of every instruction in flight leads back to it, so that no two *)
(* share a tag (reorder_buffer.cpp:42-65).                                 *)
THEOREM TagsAreUnique == Spec => []TagsNameTheirSlots
<1>1. IInv => TagsNameTheirSlots
  BY DEF IInv
<1> QED
  BY <1>1, Invariance, PTL

(* An instruction never gets the tag its slot gave out last, so that a     *)
(* late result of the previous occupant cannot be taken for its own        *)
(* (reorder_buffer.cpp:37-40, 55-65).                                      *)
THEOREM TagsAreFresh == Spec => NewTagsAlwaysDiffer
<1>1. IInv /\ Next => NewTagsDiffer
  <2> SUFFICES ASSUME IInv, Next, NEW slot \in RobIndex,
                      cur[slot] = None, cur'[slot] # None
               PROVE  cur'[slot].tag # [index |-> slot, generation |-> generations[slot]]
    BY DEF NewTagsDiffer
  <2>1. PICK issue_entry \in Maybe(ROBEntry), completion \in Maybe(FUResult),
             store_completion \in Maybe(RobTag) :
               /\ advance(issue_entry, completion, store_completion)
    BY DEF Next, apply, reset, clear_speculative_entries
  <2> DEFINE recorded ==
        apply_store_completion(apply_completion(cur, completion), store_completion)
  <2>2. SameOccupants(recorded)
    BY CompletionKeepsOccupants, StoreCompletionKeepsOccupants DEF IInv
  <2>3. accepts(issue_entry) /\ slot = tail
    <3>1. retire(recorded)[slot] = None /\ retire(recorded) \in [RobIndex -> Maybe(ROBEntry)]
      BY <2>2 DEF retire, SameOccupants, Entries, Maybe
    <3>2. CASE ~accepts(issue_entry)
      BY <2>1, <3>1, <3>2 DEF advance
    <3>3. CASE accepts(issue_entry)
      <4> HIDE DEF recorded
      <4>1. cur' = [retire(recorded) EXCEPT ![tail] = issue_entry]
        BY <2>1, <3>3 DEF advance, recorded
      <4> QED
        BY <3>1, <3>3, <4>1
    <3> QED
      BY <3>2, <3>3
  <2>4. cur'[slot].tag = next_tag
    BY <2>1, <2>2, <2>3 DEF advance, accepts, IInv, TypeOK, retire, SameOccupants, Entries
  <2>5. /\ next_tag.generation = following_generation(generations[slot])
        /\ generations[slot] \in TagGeneration
    BY <2>3 DEF accepts, next_tag, IInv, TypeOK
  <2> QED
    BY <2>4, <2>5, FollowingGeneration
<1>2. IInv /\ [Next]_robVars => [NewTagsDiffer]_robVars
  BY <1>1
<1> QED
  BY <1>2, Invariance, PTL DEF Spec, NewTagsAlwaysDiffer

----------------------------------------------------------------------------
(* The refinement: the tags from the head on are the abstract queue.       *)

(* The slot some way behind the head. *)
slot_behind(steps) ==
  IF head + steps >= RobCapacity THEN head + steps - RobCapacity ELSE head + steps

LEMMA SlotBehind ==
  ASSUME TypeOK, NEW steps \in RobIndex
  PROVE  /\ slot_behind(steps) \in RobIndex
         /\ (head + steps) % RobCapacity = slot_behind(steps)
         /\ distance(slot_behind(steps)) = steps
<1>1. RobCapacity \in Nat /\ RobCapacity > 0
  BY SignalsAssumption
<1>2. head \in RobIndex
  BY DEF TypeOK
<1>3. CASE head + steps >= RobCapacity
  <2>1. (head + steps) % RobCapacity = head + steps - RobCapacity
    BY <1>1, <1>2, <1>3 DEF RobIndex
  <2> QED
    BY <2>1, <1>1, <1>2, <1>3 DEF slot_behind, distance, RobIndex
<1>4. CASE ~(head + steps >= RobCapacity)
  <2>1. (head + steps) % RobCapacity = head + steps
    BY <1>1, <1>2, <1>4 DEF RobIndex
  <2> QED
    BY <2>1, <1>1, <1>2, <1>4 DEF slot_behind, distance, RobIndex
<1> QED
  BY <1>3, <1>4

(* Every place of the queue is a taken slot, and holds that slot's tag.    *)
OrderFollowsSlots ==
  /\ tags_in_order \in Seq(RobTag)
  /\ Len(tags_in_order) = count
  /\ tags_in_order = [i \in 1 .. count |-> tags_in_order[i]]
  /\ \A i \in 1 .. count :
       /\ slot_behind(i - 1) \in RobIndex
       /\ distance(slot_behind(i - 1)) = i - 1
       /\ cur[slot_behind(i - 1)] # None
       /\ tags_in_order[i] = cur[slot_behind(i - 1)].tag

LEMMA TagsInOrder == IInv => OrderFollowsSlots
<1> SUFFICES ASSUME IInv PROVE OrderFollowsSlots
  OBVIOUS
<1>1. RobCapacity \in Nat /\ RobCapacity > 0 /\ count \in Nat /\ count <= RobCapacity
  BY SignalsAssumption DEF IInv, TypeOK
<1>2. ASSUME NEW i \in 1 .. count
      PROVE  /\ slot_behind(i - 1) \in RobIndex
             /\ distance(slot_behind(i - 1)) = i - 1
             /\ cur[slot_behind(i - 1)] # None
             /\ tags_in_order[i] = cur[slot_behind(i - 1)].tag
             /\ tags_in_order[i] \in RobTag
  <2>1. i - 1 \in RobIndex /\ i - 1 < count
    BY <1>1 DEF RobIndex
  <2>2. /\ slot_behind(i - 1) \in RobIndex
        /\ (head + (i - 1)) % RobCapacity = slot_behind(i - 1)
        /\ distance(slot_behind(i - 1)) = i - 1
    BY <2>1, SlotBehind DEF IInv
  <2>3. cur[slot_behind(i - 1)] # None
    BY <2>1, <2>2 DEF IInv, RingIsContiguous
  <2>4. head + i - 1 = head + (i - 1)
    BY <1>1 DEF IInv, TypeOK, RobIndex
  <2>5. tags_in_order[i] = cur[slot_behind(i - 1)].tag
    BY <2>2, <2>4 DEF tags_in_order
  <2>6. cur[slot_behind(i - 1)] \in ROBEntry
    BY <2>2, <2>3 DEF IInv, TypeOK, Maybe
  <2> QED
    BY <2>2, <2>3, <2>5, <2>6 DEF ROBEntry
<1>3. tags_in_order = [i \in 1 .. count |-> tags_in_order[i]]
  BY DEF tags_in_order
<1>4. tags_in_order \in Seq(RobTag) /\ Len(tags_in_order) = count
  BY <1>1, <1>2, <1>3
<1> QED
  BY <1>2, <1>3, <1>4 DEF OrderFollowsSlots

(* When the head leaves (gone is 1) or stays, those behind it keep their   *)
(* order and their tags.                                                   *)
LEMMA OrderKept ==
  ASSUME IInv, IInv', NEW gone \in {0, 1},
         head' = (IF gone = 0 THEN head ELSE following_slot(head)),
         gone <= count, count - gone <= count',
         \A slot \in RobIndex :
            cur[slot] # None /\ (gone = 1 => slot # head) => cur'[slot].tag = cur[slot].tag
  PROVE  \A i \in 1 .. count - gone : tags_in_order'[i] = tags_in_order[i + gone]
<1>1. RobCapacity \in Nat /\ RobCapacity > 0
  BY SignalsAssumption
<1>2. TypeOK /\ OrderFollowsSlots
  BY TagsInOrder DEF IInv
<1>3. OrderFollowsSlots' /\ TypeOK'
  <2>1. IInv' => OrderFollowsSlots'
    BY TagsInOrder, PTL
  <2> QED
    BY <2>1 DEF IInv
<1>4. /\ head \in Nat /\ head < RobCapacity /\ count \in Nat /\ count <= RobCapacity
      /\ count' \in Nat
  BY <1>1, <1>2, <1>3 DEF TypeOK, RobIndex
<1> TAKE i \in 1 .. count - gone
<1>5. i \in 1 .. count' /\ i + gone \in 1 .. count /\ i \in Nat
  BY <1>4
<1>6. slot_behind(i - 1)' = slot_behind(i + gone - 1)
  <2>1. CASE gone = 0
    BY <1>4, <1>5, <2>1 DEF slot_behind
  <2>2. CASE gone = 1
    <3>1. head' = IF head + 1 = RobCapacity THEN 0 ELSE head + 1
      BY <1>2, <2>2, FollowingSlot DEF TypeOK
    <3> QED
      BY <1>1, <1>4, <1>5, <2>2, <3>1 DEF slot_behind
  <2> QED
    BY <2>1, <2>2
<1> DEFINE slot == slot_behind(i + gone - 1)
<1>7. /\ slot \in RobIndex /\ distance(slot) = i + gone - 1 /\ cur[slot] # None
      /\ tags_in_order[i + gone] = cur[slot].tag
  BY <1>2, <1>5 DEF OrderFollowsSlots
<1>8. gone = 1 => slot # head
  BY <1>4, <1>5, <1>7 DEF distance
<1>9. tags_in_order'[i] = cur'[slot].tag
  BY <1>3, <1>5, <1>6 DEF OrderFollowsSlots
<1> QED
  BY <1>7, <1>8, <1>9

(* The abstract queue's remainder after a step.                            *)
LEMMA RemainderOfOrder ==
  ASSUME IInv, NEW gone \in {0, 1}, gone <= count
  PROVE  \E rest \in Queue!Remainders :
           /\ rest \in Seq(RobTag) /\ Len(rest) = count - gone
           /\ \A i \in 1 .. count - gone : rest[i] = tags_in_order[i + gone]
<1>1. OrderFollowsSlots /\ count \in Nat
  BY TagsInOrder DEF IInv, TypeOK
<1>2. CASE gone = 0
  <2>1. tags_in_order \in Queue!Remainders
    BY DEF Queue!Remainders
  <2> QED
    BY <1>1, <1>2, <2>1 DEF OrderFollowsSlots
<1>3. CASE gone = 1
  <2>1. tags_in_order # <<>> /\ Tail(tags_in_order) \in Queue!Remainders
    BY <1>1, <1>3 DEF OrderFollowsSlots, Queue!Remainders
  <2>2. /\ Tail(tags_in_order) \in Seq(RobTag)
        /\ Len(Tail(tags_in_order)) = count - 1
        /\ \A i \in 1 .. count - 1 : Tail(tags_in_order)[i] = tags_in_order[i + 1]
    BY <1>1, <1>3, <2>1 DEF OrderFollowsSlots
  <2> QED
    BY <1>3, <2>1, <2>2
<1> QED
  BY <1>2, <1>3

(* A cycle that issues nothing: the oldest tag leaves, or none does.       *)
LEMMA OrderLeaves ==
  ASSUME IInv, IInv', NEW gone \in {0, 1},
         head' = (IF gone = 0 THEN head ELSE following_slot(head)),
         gone <= count, count' = count - gone,
         \A slot \in RobIndex :
            cur[slot] # None /\ (gone = 1 => slot # head) => cur'[slot].tag = cur[slot].tag
  PROVE  Queue!Leave
<1>1. PICK rest \in Queue!Remainders :
        /\ rest \in Seq(RobTag) /\ Len(rest) = count - gone
        /\ \A i \in 1 .. count - gone : rest[i] = tags_in_order[i + gone]
  BY RemainderOfOrder
<1>2. count \in Nat /\ count' \in Nat
  BY DEF IInv, TypeOK
<1>3. \A i \in 1 .. count - gone : tags_in_order'[i] = tags_in_order[i + gone]
  BY <1>2, OrderKept
<1>4. tags_in_order' \in Seq(RobTag) /\ Len(tags_in_order') = count'
  <2>1. IInv' => OrderFollowsSlots'
    BY TagsInOrder, PTL
  <2> QED
    BY <2>1 DEF OrderFollowsSlots
<1>5. tags_in_order' = rest
  BY <1>1, <1>2, <1>3, <1>4
<1> QED
  BY <1>1, <1>5 DEF Queue!Leave

(* A cycle that issues: the new tag joins behind the youngest.             *)
LEMMA OrderJoins ==
  ASSUME IInv, IInv', ~full, NEW gone \in {0, 1},
         head' = (IF gone = 0 THEN head ELSE following_slot(head)),
         gone <= count, count' = count - gone + 1,
         cur'[tail] # None, cur'[tail].tag = next_tag,
         \A slot \in RobIndex :
            cur[slot] # None /\ (gone = 1 => slot # head) => cur'[slot].tag = cur[slot].tag
  PROVE  Queue!Join
<1>1. PICK rest \in Queue!Remainders :
        /\ rest \in Seq(RobTag) /\ Len(rest) = count - gone
        /\ \A i \in 1 .. count - gone : rest[i] = tags_in_order[i + gone]
  BY RemainderOfOrder
<1>2. /\ RobCapacity \in Nat /\ RobCapacity > 0 /\ count \in Nat /\ count < RobCapacity
      /\ count' \in Nat /\ head \in RobIndex /\ tail \in RobIndex
  BY SignalsAssumption DEF IInv, TypeOK, full
<1>3. \A i \in 1 .. count - gone : tags_in_order'[i] = tags_in_order[i + gone]
  BY <1>2, OrderKept
<1>4. OrderFollowsSlots /\ OrderFollowsSlots'
  <2>1. IInv' => OrderFollowsSlots'
    BY TagsInOrder, PTL
  <2> QED
    BY <2>1, TagsInOrder
<1>5. tags_in_order'[count'] = next_tag
  <2>1. slot_behind(count - 1)' = tail
    <3>1. CASE gone = 0
      BY <1>2, <3>1 DEF slot_behind, IInv, RingIsContiguous, RobIndex
    <3>2. CASE gone = 1
      <4>1. head' = IF head + 1 = RobCapacity THEN 0 ELSE head + 1
        BY <1>2, <3>2, FollowingSlot
      <4> QED
        BY <1>2, <3>2, <4>1 DEF slot_behind, IInv, RingIsContiguous, RobIndex
    <3> QED
      BY <3>1, <3>2
  <2> QED
    BY <1>2, <1>4, <2>1 DEF OrderFollowsSlots
<1>6. next_tag \in RobTag \ Queue!elements(tags_in_order)
  <2>1. next_tag \in RobTag
    BY <1>2, FollowingGeneration DEF next_tag, RobTag, IInv, TypeOK
  <2>2. ASSUME NEW i \in 1 .. count
        PROVE  tags_in_order[i] # next_tag
    <3>1. /\ slot_behind(i - 1) \in RobIndex /\ cur[slot_behind(i - 1)] # None
          /\ tags_in_order[i] = cur[slot_behind(i - 1)].tag
      BY <1>4 DEF OrderFollowsSlots
    <3>2. cur[tail] = None
      BY <1>2, TailIsNext DEF IInv, RingIsContiguous
    <3> DEFINE slot == slot_behind(i - 1)
    <3>3. cur[slot].tag = [index |-> slot, generation |-> generations[slot]]
      BY <3>1 DEF IInv, TagsNameTheirSlots
    <3> HIDE DEF slot
    <3>4. cur[slot].tag.index = slot /\ slot # tail
      BY <3>1, <3>2, <3>3 DEF slot
    <3>5. next_tag.index = tail
      BY DEF next_tag
    <3> QED
      BY <3>1, <3>4, <3>5 DEF slot
  <2> QED
    BY <1>4, <2>1, <2>2 DEF OrderFollowsSlots, Queue!elements
<1>7. tags_in_order' = Append(rest, next_tag)
  <2>1. tags_in_order' \in Seq(RobTag) /\ Len(tags_in_order') = count - gone + 1
    BY <1>4 DEF OrderFollowsSlots
  <2>2. /\ Append(rest, next_tag) \in Seq(RobTag)
        /\ Len(Append(rest, next_tag)) = count - gone + 1
        /\ \A i \in 1 .. count - gone : Append(rest, next_tag)[i] = rest[i]
        /\ Append(rest, next_tag)[count - gone + 1] = next_tag
    BY <1>1, <1>2, <1>6
  <2>3. \A i \in 1 .. count - gone + 1 : tags_in_order'[i] = Append(rest, next_tag)[i]
    BY <1>1, <1>2, <1>3, <1>5, <2>2
  <2> QED
    BY <2>1, <2>2, <2>3
<1>8. Len(tags_in_order) < RobCapacity
  BY <1>2, <1>4 DEF OrderFollowsSlots
<1> QED
  BY <1>1, <1>6, <1>7, <1>8 DEF Queue!Join

(* An empty ring is the empty queue.                                       *)
LEMMA OrderCleared == count' = 0 => Queue!Clear
BY DEF Queue!Clear, tags_in_order

(* A cycle without a flush.                                                *)
LEMMA AdvanceKeepsOrder ==
  ASSUME IInv, IInv', NEW issue_entry \in Maybe(ROBEntry), NEW completion \in Maybe(FUResult),
         NEW store_completion \in Maybe(RobTag),
         advance(issue_entry, completion, store_completion)
  PROVE  Queue!Leave \/ Queue!Join
<1> DEFINE recorded ==
      apply_store_completion(apply_completion(cur, completion), store_completion)
           gone == IF commit = None THEN 0 ELSE 1
<1>1. SameOccupants(recorded)
  BY CompletionKeepsOccupants, StoreCompletionKeepsOccupants DEF IInv
<1>2. head' = IF gone = 0 THEN head ELSE following_slot(head)
  BY DEF advance
<1> HIDE DEF recorded
<1>3. count \in Nat /\ gone \in {0, 1} /\ gone <= count /\ head \in RobIndex /\ tail \in RobIndex
  BY CommitTakesTheHead, SignalsAssumption DEF IInv, TypeOK
<1>4. \A slot \in RobIndex : cur[slot] # None /\ (gone = 1 => slot # head) =>
        retire(recorded)[slot] # None /\ retire(recorded)[slot].tag = cur[slot].tag
  BY <1>1, <1>3 DEF retire, SameOccupants, Entries
<1>5. CASE accepts(issue_entry)
  <2>1. /\ cur' = [retire(recorded) EXCEPT ![tail] = issue_entry]
        /\ count' = count - gone + 1
    BY <1>3, <1>5 DEF advance, recorded
  <2>2. cur[tail] = None
    BY <1>3, <1>5, TailIsNext DEF IInv, RingIsContiguous, accepts
  <2>3. cur'[tail] = issue_entry /\ issue_entry # None /\ issue_entry.tag = next_tag /\ ~full
    BY <1>1, <1>3, <1>5, <2>1 DEF accepts, retire, SameOccupants, Entries
  <2>4. \A slot \in RobIndex :
          cur[slot] # None /\ (gone = 1 => slot # head) => cur'[slot].tag = cur[slot].tag
    BY <1>1, <1>3, <1>4, <2>1, <2>2 DEF retire, SameOccupants, Entries
  <2> HIDE DEF gone
  <2> QED
    BY <1>2, <1>3, <2>1, <2>3, <2>4, OrderJoins
<1>6. CASE ~accepts(issue_entry)
  <2>1. cur' = retire(recorded) /\ count' = count - gone
    BY <1>3, <1>6 DEF advance, recorded
  <2> HIDE DEF gone
  <2> QED
    BY <1>2, <1>3, <1>4, <2>1, OrderLeaves
<1> QED
  BY <1>5, <1>6

(* Whatever the callers do, the ring is a first-in first-out queue of      *)
(* distinct tags: an instruction commits only when all before it have      *)
(* (reorder_buffer.cpp:127-219).                                           *)
THEOREM RingImplementsQueue == Spec => CommitsInOrder
<1>1. Init => Queue!Init
  BY DEF Init, Queue!Init, tags_in_order
<1>2. IInv /\ IInv' /\ [Next]_robVars => [Queue!Next]_tags_in_order
  <2> SUFFICES ASSUME IInv, IInv', [Next]_robVars
               PROVE  Queue!Next \/ UNCHANGED tags_in_order
    OBVIOUS
  <2>1. ASSUME NEW issue_entry \in Maybe(ROBEntry), NEW completion \in Maybe(FUResult),
               NEW store_completion \in Maybe(RobTag),
               apply(issue_entry, completion, store_completion)
        PROVE  Queue!Next
    <3>1. CASE flush /\ clear_speculative_entries
      BY <3>1, OrderCleared DEF clear_speculative_entries, Queue!Next
    <3>2. CASE ~flush /\ advance(issue_entry, completion, store_completion)
      BY <3>2, AdvanceKeepsOrder DEF Queue!Next
    <3> QED
      BY <2>1, <3>1, <3>2 DEF apply
  <2>2. CASE reset
    BY <2>2, OrderCleared DEF reset, Queue!Next
  <2>3. CASE UNCHANGED robVars
    BY <2>3 DEF robVars, tags_in_order
  <2> QED
    BY <2>1, <2>2, <2>3 DEF Next
<1> QED
  BY <1>1, <1>2, Invariance, PTL DEF Spec, CommitsInOrder, Queue!Spec
============================================================================
