------------------------- MODULE MemorySystemProofs -------------------------
(***************************************************************************)
(* Proofs, for every size of the queue and of memory, every latency and    *)
(* every behaviour of the rest of the core, that the load/store queue and  *)
(* the memory unit implement InOrderMemory.                                *)
(***************************************************************************)
EXTENDS MemorySystem, SequenceTheorems, TLAPS

(* The latches hold values of their types. *)
TypeOK ==
  /\ lsq_cur \in [LSQ!Slot -> Maybe(LSQ!LSQEntry)]
  /\ lsq_head \in LSQ!Slot /\ lsq_tail \in LSQ!Slot /\ lsq_count \in 0 .. LsqCapacity
  /\ lsq_load_result \in Maybe(FUResult)
  /\ memory \in Image
  /\ transaction \in Maybe(MEM!DataTransaction)
  /\ response \in Maybe(MEM!DataMemoryResponse)
  /\ authorised \in Maybe(RobTag) /\ stopped \in BOOLEAN

(* Going round from the head, how far a slot is. *)
distance(slot) == IF slot >= lsq_head THEN slot - lsq_head ELSE slot + LsqCapacity - lsq_head

QueueIsContiguous ==
  /\ \A slot \in LSQ!Slot : lsq_cur[slot] # None <=> distance(slot) < lsq_count
  /\ lsq_tail = IF lsq_head + lsq_count >= LsqCapacity
                THEN lsq_head + lsq_count - LsqCapacity ELSE lsq_head + lsq_count

(* Only accesses are queued, each under a tag of its own; a load has no    *)
(* data to wait for.                                                       *)
EntriesAreAccesses ==
  \A slot \in LSQ!Slot : lsq_cur[slot] # None =>
    /\ lsq_cur[slot].op \in LoadOps \cup StoreOps
    /\ is_load(lsq_cur[slot].op) => lsq_cur[slot].store_data.ready
    /\ \A other \in LSQ!Slot :
         lsq_cur[other] # None /\ other # slot =>
           lsq_cur[other].destination # lsq_cur[slot].destination

(* Only the head has asked memory, for what does not change any more ...   *)
RequestsAreFinal ==
  \A slot \in LSQ!Slot : lsq_cur[slot] # None /\ lsq_cur[slot].request_sent =>
    /\ slot = lsq_head
    /\ lsq_cur[slot].address_ready /\ lsq_cur[slot].store_data.ready

asked == LSQ!front # None /\ LSQ!front.request_sent

(* ... with room for what it loads, or authorised to store.                *)
RequestsAreTimely ==
  asked => IF is_load(LSQ!front.op) THEN lsq_load_result = None
           ELSE authorised = LSQ!front.destination

AuthorisedIsHead ==
  authorised # None =>
    LSQ!front # None /\ is_store(LSQ!front.op) /\ LSQ!front.destination = authorised

Abandoned(tag) ==
  \A slot \in LSQ!Slot : lsq_cur[slot] # None => lsq_cur[slot].destination # tag

(* Memory serves the head's request, or that of a load that was flushed.   *)
TransactionIsKnown ==
  transaction # None =>
    \/ asked /\ transaction.request = LSQ!make_memory_request(LSQ!front)
    \/ ~transaction.request.is_store /\ Abandoned(transaction.request.tag)

(* And so does it answer; a load is answered from memory as it still is.   *)
ResponseIsKnown ==
  response # None =>
    /\ transaction = None
    /\ \/ asked /\ response = MEM!response_to(LSQ!make_memory_request(LSQ!front))
       \/ ~response.is_store /\ Abandoned(response.tag)

IInv ==
  /\ TypeOK /\ QueueIsContiguous /\ EntriesAreAccesses
  /\ RequestsAreFinal /\ RequestsAreTimely /\ AuthorisedIsHead
  /\ TransactionIsKnown /\ ResponseIsKnown

----------------------------------------------------------------------------
(* The instances speak of the same values and operations. *)

LEMMA SameSignals ==
  /\ LSQ!RobTag = RobTag /\ MEM!RobTag = RobTag /\ LSQ!Word = Word /\ MEM!Word = Word
  /\ Address = Word /\ LSQ!Address = Word /\ MEM!Address = Word
  /\ Promise!RobTag = RobTag /\ Promise!Word = Word /\ Promise!Address = Word
  /\ LSQ!ByteSize = ByteSize /\ MEM!ByteSize = ByteSize /\ Promise!ByteSize = ByteSize
  /\ LSQ!WordSize = WordSize /\ Promise!WordSize = WordSize
BY DEF Address, LSQ!Address, MEM!Address, Promise!Address, RobTag, RobIndex, TagGeneration,
       Word, WordSize, WordBits, ByteSize, LSQ!RobTag, LSQ!RobIndex, LSQ!TagGeneration,
       MEM!RobTag, MEM!RobIndex, MEM!TagGeneration, Promise!RobTag, Promise!RobIndex,
       Promise!TagGeneration, LSQ!Word, LSQ!WordSize, LSQ!WordBits, LSQ!ByteSize,
       MEM!Word, MEM!WordSize, MEM!WordBits, MEM!ByteSize, Promise!Word,
       Promise!WordSize, Promise!WordBits, Promise!ByteSize

LEMMA SameOperations ==
  /\ LSQ!OP = OP /\ Promise!OP = OP
  /\ \A op : /\ LSQ!is_load(op) = is_load(op) /\ LSQ!is_store(op) = is_store(op)
             /\ Promise!is_load(op) = is_load(op) /\ Promise!is_store(op) = is_store(op)
             /\ Promise!width(op) = LSQ!memory_width(op)
             /\ LSQ!memory_width(op) \in MemoryWidth
             /\ is_store(op) \in BOOLEAN
<1>1. LSQ!OP = OP
  BY DEF OP, RegisterOps, ImmediateOps, UpperOps, LoadOps, StoreOps, BranchOps, JumpOps,
         LSQ!OP, LSQ!RegisterOps, LSQ!ImmediateOps, LSQ!UpperOps, LSQ!LoadOps,
         LSQ!StoreOps, LSQ!BranchOps, LSQ!JumpOps
<1>2. Promise!OP = OP
  BY DEF OP, RegisterOps, ImmediateOps, UpperOps, LoadOps, StoreOps, BranchOps, JumpOps,
         Promise!OP, Promise!RegisterOps, Promise!ImmediateOps, Promise!UpperOps,
         Promise!LoadOps, Promise!StoreOps, Promise!BranchOps, Promise!JumpOps
<1>3. ASSUME NEW op
      PROVE  /\ LSQ!is_load(op) = is_load(op) /\ LSQ!is_store(op) = is_store(op)
             /\ Promise!is_load(op) = is_load(op) /\ Promise!is_store(op) = is_store(op)
  BY DEF is_load, is_store, LoadOps, StoreOps, LSQ!is_load, LSQ!is_store, LSQ!LoadOps,
         LSQ!StoreOps, Promise!is_load, Promise!is_store, Promise!LoadOps, Promise!StoreOps
<1>4. ASSUME NEW op
      PROVE  /\ Promise!width(op) = LSQ!memory_width(op)
             /\ LSQ!memory_width(op) \in MemoryWidth
  BY DEF Promise!width, Promise!BYTE, Promise!HALF, Promise!WORD, LSQ!memory_width,
         MemoryWidth, BYTE, HALF, WORD
<1> QED
  BY <1>1, <1>2, <1>3, <1>4 DEF is_store

LEMMA SameRecords ==
  /\ LSQ!LSQEntry =
       [op : OP, destination : RobTag, base : Operand, store_data : Operand,
        immediate : Word, address : Word, address_ready : BOOLEAN, request_sent : BOOLEAN]
  /\ MEM!DataMemoryRequest =
       [is_store : BOOLEAN, width : MemoryWidth, address : Word, value : Word, tag : RobTag]
  /\ MEM!DataMemoryResponse =
       [tag : RobTag, value : Word, is_store : BOOLEAN, success : BOOLEAN]
  /\ FUResult = [tag : RobTag, result : Word, actual_next_pc : Word,
                 branch_taken : BOOLEAN, has_control_result : BOOLEAN]
  /\ Promise!Access = [tag : RobTag, op : OP, address : Maybe(Word), value : Maybe(Word)]
<1>1. LSQ!Operand = Operand
  BY SameSignals DEF LSQ!Operand, Operand, LSQ!Maybe, Maybe
<1>2. MEM!MemoryWidth = MemoryWidth
  BY DEF MEM!MemoryWidth, MemoryWidth, MEM!BYTE, BYTE, MEM!HALF, HALF, MEM!WORD, WORD
<1> QED
  BY <1>1, <1>2, SameSignals, SameOperations
     DEF LSQ!LSQEntry, MEM!DataMemoryRequest, MEM!DataMemoryResponse, FUResult,
         Promise!Access, Promise!Maybe, Maybe

LEMMA SameMemory ==
  ASSUME NEW image, NEW address, NEW width
  PROVE  /\ Promise!read(image, address, width) = MEM!read(image, address, width)
         /\ Promise!in_bounds(address, width) = MEM!in_bounds(address, width)
         /\ \A value : Promise!write(image, address, width, value)
                         = MEM!write(image, address, width, value)
         /\ MEM!in_bounds(address, width) \in BOOLEAN
BY SameSignals DEF Promise!read, MEM!read, Promise!in_bounds, MEM!in_bounds, Promise!write,
   MEM!write

----------------------------------------------------------------------------
(* Words and bytes. *)

LEMMA Division ==
  ASSUME NEW value \in Nat, NEW divisor \in Nat \ {0}
  PROVE  /\ value % divisor \in 0 .. divisor - 1
         /\ value \div divisor \in Nat
         /\ value < divisor => value % divisor = value
OBVIOUS

LEMMA Sizes ==
  /\ WordBits \in Nat \ {0} /\ WordSize \in Nat \ {0} /\ ByteSize \in Nat \ {0}
  /\ Word \subseteq Nat /\ 0 \in Word
<1>1. ByteBits \in Nat \ {0} /\ WordBits \in Nat \ {0} /\ WordBits = 4 * ByteBits
  BY SignalsAssumption DEF WordBits
<1>2. WordBits \in 0 .. WordBits /\ ByteBits \in 0 .. WordBits
  BY <1>1
<1>3. WordSize \in Nat \ {0} /\ ByteSize \in Nat \ {0}
  BY <1>2, PowersAssumption DEF WordSize, ByteSize
<1> QED
  BY <1>1, <1>3 DEF Word

LEMMA BytePowers ==
  /\ ByteSize ^ 0 = 1 /\ ByteSize ^ 1 = ByteSize
  /\ ByteSize ^ 2 = ByteSize * ByteSize /\ ByteSize ^ 3 = ByteSize * ByteSize * ByteSize
  /\ WordSize = ByteSize * ByteSize * ByteSize * ByteSize
  /\ \A n \in 0 .. 3 : ByteSize ^ n \in Nat \ {0}
<1>1. /\ ByteSize ^ 0 = 1
      /\ ByteSize ^ (0 + 1) = ByteSize ^ 0 * ByteSize
      /\ ByteSize ^ (1 + 1) = ByteSize ^ 1 * ByteSize
      /\ ByteSize ^ (2 + 1) = ByteSize ^ 2 * ByteSize
      /\ ByteSize ^ (3 + 1) = ByteSize ^ 3 * ByteSize
      /\ WordSize = ByteSize ^ 4
  BY PowersAssumption
<1>2. ByteSize \in Nat \ {0}
  BY Sizes
<1>3. /\ ByteSize ^ 1 = ByteSize /\ ByteSize ^ 2 = ByteSize * ByteSize
      /\ ByteSize ^ 3 = ByteSize * ByteSize * ByteSize
      /\ WordSize = ByteSize * ByteSize * ByteSize * ByteSize
  BY <1>1, <1>2
<1>4. /\ ByteSize * ByteSize \in Nat \ {0}
      /\ ByteSize * ByteSize * ByteSize \in Nat \ {0}
  BY <1>2
<1>5. \A n \in 0 .. 3 : n = 0 \/ n = 1 \/ n = 2 \/ n = 3
  OBVIOUS
<1> QED
  BY <1>1, <1>2, <1>3, <1>4, <1>5

(* As many bits as the bytes of an access have hold what the bytes do.     *)
Limit(width) == 2 ^ (width * ByteBits)

LEMMA Limits ==
  /\ Limit(1) = ByteSize /\ Limit(2) = ByteSize * ByteSize /\ Limit(4) = WordSize
  /\ \A width \in MemoryWidth : Limit(width) \in Nat \ {0} /\ Limit(width) <= WordSize
<1>1. ByteBits \in Nat \ {0} /\ WordBits = 4 * ByteBits
  BY SignalsAssumption DEF WordBits
<1>2. Limit(1) = ByteSize
  <2>1. 1 * ByteBits = ByteBits
    BY <1>1
  <2> QED
    BY <2>1 DEF Limit, ByteSize
<1>3. Limit(4) = WordSize
  BY DEF Limit, WordSize, WordBits
<1>4. Limit(2) \in Nat \ {0} /\ Limit(2) * Limit(2) = WordSize
  <2>1. 2 * ByteBits \in 0 .. WordBits /\ WordBits - 2 * ByteBits = 2 * ByteBits
    BY <1>1
  <2> QED
    BY <2>1, PowersAssumption DEF Limit
<1>5. Limit(2) = ByteSize * ByteSize
  <2> DEFINE half == Limit(2)
             square == ByteSize * ByteSize
  <2>1. half \in Nat \ {0} /\ square \in Nat \ {0}
    BY <1>4, Sizes
  <2>2. half * half = square * square
    BY <1>4, Sizes, BytePowers
  <2> HIDE DEF half, square
  <2>3. ~(half < square) /\ ~(square < half)
    BY <2>1, <2>2
  <2> QED
    BY <2>1, <2>3 DEF half, square
<1>6. /\ ByteSize \in Nat \ {0} /\ WordSize \in Nat \ {0}
      /\ ByteSize <= WordSize /\ ByteSize * ByteSize <= WordSize
  BY Sizes, BytePowers
<1> QED
  BY <1>2, <1>3, <1>4, <1>5, <1>6 DEF MemoryWidth, BYTE, HALF, WORD

(* What an access reads fits into its bytes, what it writes are bytes.     *)
LEMMA Reading ==
  ASSUME NEW image \in Image, NEW address \in Word, NEW width \in MemoryWidth,
         MEM!in_bounds(address, width)
  PROVE  MEM!read(image, address, width) \in 0 .. Limit(width) - 1
<1> DEFINE byte(i) == IF i < width THEN image[address + i] * ByteSize ^ i ELSE 0
           highest == ByteSize - 1
<1>1. address \in Nat /\ MemorySize \in Nat /\ width \in {1, 2, 4}
      /\ address + width <= MemorySize
  BY Sizes, MemoryImageAssumption DEF MEM!in_bounds, MemoryWidth, BYTE, HALF, WORD
<1>2. ASSUME NEW i \in 0 .. 3, i < width
      PROVE  image[address + i] \in 0 .. highest
  <2>1. address + i \in 0 .. MemorySize - 1
    BY <1>1, <1>2
  <2> QED
    BY <2>1 DEF Image, Byte
<1>3. ASSUME NEW scale \in Nat, NEW value \in 0 .. highest
      PROVE  value * scale \in 0 .. highest * scale
  BY Sizes
<1>4. /\ ByteSize \in Nat \ {0} /\ ByteSize * ByteSize \in Nat
      /\ ByteSize * ByteSize * ByteSize \in Nat
      /\ highest \in Nat /\ highest * ByteSize \in Nat
      /\ highest * ByteSize * ByteSize \in Nat
      /\ highest * ByteSize * ByteSize * ByteSize \in Nat
  BY Sizes
<1>5. /\ byte(0) \in 0 .. highest
      /\ byte(1) \in 0 .. highest * ByteSize
      /\ byte(2) \in 0 .. highest * ByteSize * ByteSize
      /\ byte(3) \in 0 .. highest * ByteSize * ByteSize * ByteSize
      /\ width = 1 => byte(1) = 0
      /\ width # 4 => byte(2) = 0 /\ byte(3) = 0
  <2>1. byte(0) \in 0 .. highest
    BY <1>1, <1>2, <1>4, BytePowers
  <2>2. byte(1) \in 0 .. highest * ByteSize
    BY <1>1, <1>2, <1>3, <1>4, BytePowers
  <2>3. byte(2) \in 0 .. highest * ByteSize * ByteSize
    BY <1>1, <1>2, <1>3, <1>4, BytePowers
  <2>4. byte(3) \in 0 .. highest * ByteSize * ByteSize * ByteSize
    BY <1>1, <1>2, <1>3, <1>4, BytePowers
  <2> QED
    BY <1>1, <2>1, <2>2, <2>3, <2>4
<1>6. MEM!read(image, address, width) = byte(0) + byte(1) + byte(2) + byte(3)
  BY SameSignals DEF MEM!read
<1> HIDE DEF byte
<1>7. CASE width = 1
  BY <1>5, <1>6, <1>7, Sizes, Limits
<1>8. CASE width = 2
  BY <1>5, <1>6, <1>8, Sizes, Limits
<1>9. CASE width = 4
  BY <1>5, <1>6, <1>9, Sizes, Limits, BytePowers
<1> QED
  BY <1>1, <1>7, <1>8, <1>9

LEMMA Writing ==
  ASSUME NEW image \in Image, NEW address \in Word, NEW width \in MemoryWidth,
         NEW value \in Word
  PROVE  MEM!write(image, address, width, value) \in Image
<1>1. ASSUME NEW a \in 0 .. MemorySize - 1, a \in address .. address + width - 1
      PROVE  (value \div ByteSize ^ (a - address)) % ByteSize \in Byte
  <2>1. address \in Nat /\ value \in Nat /\ width \in {1, 2, 4} /\ a \in Nat
    BY Sizes, MemoryImageAssumption DEF MemoryWidth, BYTE, HALF, WORD
  <2>2. a - address \in 0 .. 3
    BY <1>1, <2>1
  <2>3. ByteSize ^ (a - address) \in Nat \ {0}
    BY <2>2, BytePowers
  <2>4. value \div ByteSize ^ (a - address) \in Nat
    BY <2>1, <2>3, Division
  <2> QED
    BY <2>4, Division, Sizes DEF Byte
<1> QED
  BY <1>1, SameSignals DEF MEM!write, Image

(* Loading makes of the bytes that were read what InOrderMemory says: the  *)
(* unsigned loads, and LW, have nothing left to cut off.                   *)
LEMMA Loading ==
  ASSUME NEW op, NEW value \in 0 .. Limit(LSQ!memory_width(op)) - 1
  PROVE  /\ LSQ!extend_load_result(op, value) \in Word
         /\ LSQ!extend_load_result(op, value) =
              IF op \in {"LB", "LH"}
              THEN Promise!sign_extend(value, Promise!width(op) * ByteBits) ELSE value
<1> DEFINE width == LSQ!memory_width(op)
           bits == width * ByteBits
           limit == Limit(width)
           extended == value + WordSize - limit
<1>1. width \in MemoryWidth /\ Promise!width(op) = width
  BY SameOperations
<1>2. limit \in Nat \ {0} /\ limit <= WordSize /\ value \in Nat /\ value < limit
  BY <1>1, Limits
<1>3. value % limit = value
  BY <1>2, Division
<1>4. 2 ^ bits = limit
  BY DEF Limit
<1>5. LSQ!zero_extend(value, bits) = value /\ Promise!zero_extend(value, bits) = value
  BY <1>3, <1>4 DEF LSQ!zero_extend, Promise!zero_extend
<1>6. /\ LSQ!sign_extend(value, bits) = Promise!sign_extend(value, bits)
      /\ LSQ!sign_extend(value, bits) \in {value, extended}
  BY <1>4, <1>5, SameSignals DEF LSQ!sign_extend, Promise!sign_extend, LSQ!get_bit, Promise!get_bit
<1>7. LSQ!extend_load_result(op, value) =
        IF op \in {"LB", "LH"} THEN LSQ!sign_extend(value, bits)
        ELSE LSQ!zero_extend(value, bits)
  BY DEF LSQ!extend_load_result
<1>8. value \in Word /\ extended \in Word
  BY <1>2, Sizes DEF Word
<1> HIDE DEF extended, limit, bits
<1> QED
  BY <1>1, <1>5, <1>6, <1>7, <1>8 DEF bits

----------------------------------------------------------------------------
(* What a cycle is given, and what it does to the queue and to memory.     *)

LEMMA HeadOfTheQueue ==
  ASSUME TypeOK, QueueIsContiguous
  PROVE  /\ LsqCapacity \in Nat \ {0}
         /\ lsq_head \in LSQ!Slot /\ lsq_tail \in LSQ!Slot
         /\ LSQ!front # None <=> lsq_count # 0
         /\ LSQ!front # None =>
              LSQ!front = lsq_cur[lsq_head] /\ LSQ!front \in LSQ!LSQEntry
         /\ lsq_cur[lsq_head] # None <=> lsq_count # 0
         /\ ~LSQ!full => lsq_cur[lsq_tail] = None /\ lsq_count < LsqCapacity
<1>1. /\ LsqCapacity \in Nat /\ LsqCapacity > 0
      /\ lsq_head \in LSQ!Slot /\ lsq_tail \in LSQ!Slot
      /\ lsq_head \in Nat /\ lsq_head < LsqCapacity
      /\ lsq_count \in Nat /\ lsq_count <= LsqCapacity
  BY MemorySystemAssumption DEF TypeOK, LSQ!Slot
<1>2. lsq_cur[lsq_head] # None <=> lsq_count # 0
  <2>1. distance(lsq_head) = 0
    BY <1>1 DEF distance
  <2> QED
    BY <1>1, <2>1 DEF QueueIsContiguous
<1>3. ~LSQ!full => lsq_cur[lsq_tail] = None /\ lsq_count < LsqCapacity
  <2>1. ~LSQ!full => distance(lsq_tail) = lsq_count
    BY <1>1 DEF distance, LSQ!full, QueueIsContiguous, LSQ!Slot
  <2> QED
    BY <1>1, <2>1 DEF QueueIsContiguous, LSQ!full
<1> QED
  BY <1>1, <1>2, <1>3 DEF LSQ!front, LSQ!empty, TypeOK, Maybe

(* What the rest of the core may hand over in a cycle. *)
Inputs(issue_entry, cdb, granted) ==
  /\ granted \in BOOLEAN /\ granted => lsq_load_result # None
  /\ issue_entry \in issuable(granted) /\ cdb \in broadcasts(granted)

LEMMA InputTypes ==
  ASSUME TypeOK, QueueIsContiguous, NEW issue_entry, NEW cdb, NEW granted,
         Inputs(issue_entry, cdb, granted)
  PROVE  /\ issue_entry \in Maybe(LSQ!LSQEntry) /\ cdb \in Maybe(CDBMsg)
         /\ issue_entry # None =>
              /\ ~LSQ!full
              /\ issue_entry.op \in LoadOps \cup StoreOps
              /\ is_load(issue_entry.op) => issue_entry.store_data.ready
              /\ issue_entry.destination \notin tags_in_use
              /\ ~issue_entry.request_sent
<1>1. /\ RobCapacity - 1 \in RobIndex /\ 0 \in TagGeneration /\ 0 \in Word
      /\ Operands \subseteq Word /\ Offset \in Word
      /\ Operations \subseteq LoadOps \cup StoreOps /\ Operations \subseteq OP
  BY SignalsAssumption, MemorySystemAssumption, Sizes DEF RobIndex, TagGeneration, OP
<1>2. outside_tags \subseteq RobTag
  BY <1>1 DEF outside_tags, RobTag
<1>3. \A entry \in queued : entry \in LSQ!LSQEntry
  BY DEF queued, TypeOK, Maybe
<1>4. lsq_load_result # None => lsq_load_result.tag \in RobTag /\ lsq_load_result.result \in Word
  BY SameRecords DEF TypeOK, Maybe
<1>5. \A value \in Word : ready_operand(value) \in Operand
  BY DEF ready_operand, Operand, Maybe
<1>6. \A tag \in RobTag : waiting_operand(tag) \in Operand
  BY <1>1 DEF waiting_operand, Operand, Maybe
<1>7. possible_operands(granted) \subseteq Operand
  <2>1. \A entry \in queued : entry.destination \in RobTag
    BY <1>3, SameRecords
  <2> QED
    BY <1>1, <1>2, <1>4, <1>5, <1>6, <2>1 DEF possible_operands
<1>8. \A tag \in fresh_tags : tag \in RobTag /\ tag \notin tags_in_use
  BY DEF fresh_tags
<1>9. ASSUME issue_entry # None
      PROVE  /\ issue_entry \in LSQ!LSQEntry /\ ~LSQ!full
             /\ issue_entry.op \in LoadOps \cup StoreOps
             /\ is_load(issue_entry.op) => issue_entry.store_data.ready
             /\ issue_entry.destination \notin tags_in_use
             /\ ~issue_entry.request_sent
  <2>1. /\ ~LSQ!full /\ issue_entry \in new_entries(granted)
        /\ is_load(issue_entry.op) => issue_entry.store_data = ready_operand(0)
    BY <1>9 DEF Inputs, issuable, Maybe
  <2>2. PICK op \in Operations, tag \in fresh_tags, base \in possible_operands(granted),
             data \in possible_operands(granted) :
          issue_entry = [op |-> op, destination |-> tag, base |-> base, store_data |-> data,
                         immediate |-> Offset, address |-> 0, address_ready |-> FALSE,
                         request_sent |-> FALSE]
    BY <2>1 DEF new_entries
  <2>3. base \in Operand /\ data \in Operand /\ tag \in RobTag /\ tag \notin tags_in_use
    BY <1>7, <1>8
  <2> QED
    BY <1>1, <2>1, <2>2, <2>3, SameRecords DEF ready_operand
<1>10. cdb \in Maybe(CDBMsg)
  <2>1. CASE granted
    <3>1. cdb = [tag |-> lsq_load_result.tag, value |-> lsq_load_result.result]
      BY <2>1 DEF Inputs, broadcasts
    <3> QED
      BY <1>4, <2>1, <3>1 DEF Inputs, CDBMsg, Maybe
  <2>2. CASE ~granted
    <3>1. cdb # None => \E tag \in outside_tags, value \in Operands :
                          cdb = [tag |-> tag, value |-> value]
      BY <2>2 DEF Inputs, broadcasts, Maybe
    <3> QED
      BY <1>1, <1>2, <3>1 DEF CDBMsg, Maybe
  <2> QED
    BY <2>1, <2>2 DEF Inputs
<1> QED
  BY <1>9, <1>10 DEF Maybe

(* A waiting entry through a cycle: it may be woken, its address computed, *)
(* and its request sent.                                                   *)
Continues(new, old, cdb, sent) ==
  /\ new \in LSQ!LSQEntry /\ new.op = old.op /\ new.destination = old.destination
  /\ new.store_data = IF is_store(old.op) THEN LSQ!wake_operand(old.store_data, cdb)
                      ELSE old.store_data
  /\ new.request_sent <=> old.request_sent \/ sent
  /\ old.address_ready => new.address_ready /\ new.address = old.address

LEMMA EntryAddressed ==
  ASSUME NEW entry \in LSQ!LSQEntry
  PROVE  LET new == LSQ!addressed(entry)
         IN  /\ new \in LSQ!LSQEntry /\ new.op = entry.op
             /\ new.destination = entry.destination /\ new.store_data = entry.store_data
             /\ new.request_sent = entry.request_sent
             /\ entry.address_ready => new.address_ready /\ new.address = entry.address
<1>1. entry.base.value \in Word /\ entry.immediate \in Word
  BY SameRecords DEF Operand
<1>2. LSQ!add(entry.base.value, entry.immediate) \in Word
  <2>1. entry.base.value + entry.immediate \in Nat
    BY <1>1, Sizes DEF Word
  <2> QED
    BY <2>1, Division, Sizes, SameSignals DEF LSQ!add, Word
<1>3. entry # None
  BY NothingAssumption
<1> QED
  BY <1>2, <1>3, SameRecords DEF LSQ!addressed

LEMMA EntryContinues ==
  ASSUME NEW entry \in LSQ!LSQEntry, NEW cdb \in Maybe(CDBMsg), NEW sent \in BOOLEAN
  PROVE  LET woken == LSQ!wake_entry(entry, cdb)
             served == IF sent THEN LSQ!mark_request_sent(woken) ELSE woken
         IN  Continues(LSQ!addressed(served), entry, cdb, sent)
<1> DEFINE woken == LSQ!wake_entry(entry, cdb)
           served == IF sent THEN LSQ!mark_request_sent(woken) ELSE woken
<1>1. \A value : LSQ!ready_operand(value) = ready_operand(value)
  BY DEF LSQ!ready_operand, ready_operand
<1>2. ASSUME NEW operand \in Operand
      PROVE  LSQ!wake_operand(operand, cdb) \in Operand
  BY <1>1 DEF LSQ!wake_operand, ready_operand, Operand, Maybe, CDBMsg
<1>3. woken = [entry EXCEPT !.base = LSQ!wake_operand(@, cdb),
                            !.store_data = IF is_store(entry.op)
                                           THEN LSQ!wake_operand(@, cdb) ELSE @]
  BY NothingAssumption, SameOperations DEF LSQ!wake_entry
<1>4. /\ woken \in LSQ!LSQEntry /\ woken.op = entry.op /\ woken.destination = entry.destination
      /\ woken.store_data = IF is_store(entry.op)
                            THEN LSQ!wake_operand(entry.store_data, cdb)
                            ELSE entry.store_data
      /\ woken.request_sent = entry.request_sent
      /\ woken.address_ready = entry.address_ready /\ woken.address = entry.address
  BY <1>2, <1>3, SameRecords
<1> HIDE DEF woken
<1>5. /\ served \in LSQ!LSQEntry /\ served.op = woken.op
      /\ served.destination = woken.destination /\ served.store_data = woken.store_data
      /\ served.request_sent <=> woken.request_sent \/ sent
      /\ served.address_ready = woken.address_ready /\ served.address = woken.address
  BY <1>4 DEF LSQ!mark_request_sent, LSQ!LSQEntry
<1> HIDE DEF served
<1> QED
  BY <1>4, <1>5, EntryAddressed DEF Continues, woken, served

(* The slot behind another. *)
LEMMA Following ==
  ASSUME NEW slot \in LSQ!Slot
  PROVE  LSQ!following(slot) = IF slot + 1 = LsqCapacity THEN 0 ELSE slot + 1
<1>1. LsqCapacity \in Nat /\ LsqCapacity > 0
  BY MemorySystemAssumption
<1>2. slot \in Nat /\ slot + 1 <= LsqCapacity
  BY <1>1 DEF LSQ!Slot
<1>3. (slot + 1 = LsqCapacity) => (slot + 1) % LsqCapacity = 0
  BY <1>1
<1>4. (slot + 1 # LsqCapacity) => (slot + 1) % LsqCapacity = slot + 1
  BY <1>1, <1>2
<1> QED
  BY <1>3, <1>4 DEF LSQ!following

LEMMA Served ==
  ASSUME NEW slot, NEW cdb, NEW removed \in BOOLEAN, NEW sent \in BOOLEAN
  PROVE  LSQ!served(slot, cdb, removed, sent) =
           LET entry == LSQ!wake_entry(lsq_cur[slot], cdb)
           IN  IF slot = lsq_head /\ removed THEN None
               ELSE IF slot = lsq_head /\ sent THEN LSQ!mark_request_sent(entry)
               ELSE entry
<1>1. CASE slot = lsq_head /\ removed
  BY <1>1 DEF LSQ!served
<1>2. CASE ~(slot = lsq_head /\ removed) /\ slot = lsq_head /\ sent
  BY <1>2 DEF LSQ!served
<1>3. CASE ~(slot = lsq_head /\ removed) /\ ~(slot = lsq_head /\ sent)
  BY <1>3 DEF LSQ!served
<1> QED
  BY <1>1, <1>2, <1>3

(* The head has its answer and leaves; the others stay; one may join.      *)
removed == LSQ!remove_head(response, FALSE)
loaded == LSQ!completed_load_result(response, FALSE)
asked_for(granted) ==
  LSQ!memory_request(authorised, MEM!data_port_available, granted, FALSE)

stays(slot) == lsq_cur[slot] # None /\ (removed => slot # lsq_head)

LEMMA CycleOfTheQueue ==
  ASSUME TypeOK, QueueIsContiguous, NEW issue_entry, NEW cdb, NEW granted,
         Inputs(issue_entry, cdb, granted), advance(issue_entry, cdb, granted, FALSE)
  PROVE  /\ \A slot \in LSQ!Slot :
              lsq_cur'[slot] # None <=> stays(slot) \/ (slot = lsq_tail /\ issue_entry # None)
         /\ \A slot \in LSQ!Slot : stays(slot) =>
              Continues(lsq_cur'[slot], lsq_cur[slot], cdb,
                        slot = lsq_head /\ asked_for(granted) # None)
         /\ issue_entry # None => lsq_cur'[lsq_tail] = LSQ!addressed(issue_entry)
         /\ lsq_head' = IF ~removed THEN lsq_head
                        ELSE IF lsq_head + 1 = LsqCapacity THEN 0 ELSE lsq_head + 1
         /\ lsq_count' = (lsq_count + (IF issue_entry = None THEN 0 ELSE 1))
                           - (IF removed THEN 1 ELSE 0)
         /\ lsq_load_result' = IF loaded # None THEN loaded
                               ELSE IF granted THEN None ELSE lsq_load_result
         /\ lsq_cur' \in [LSQ!Slot -> Maybe(LSQ!LSQEntry)]
         /\ lsq_head' \in LSQ!Slot /\ lsq_tail' \in LSQ!Slot /\ lsq_count' \in 0 .. LsqCapacity
         /\ QueueIsContiguous'
<1> DEFINE sends == asked_for(granted) # None
           entries == [slot \in LSQ!Slot |-> LSQ!served(slot, cdb, removed, sends)]
           inserted == IF LSQ!accepts(issue_entry) THEN [entries EXCEPT ![lsq_tail] = issue_entry]
                       ELSE entries
<1>1. /\ LsqCapacity \in Nat /\ LsqCapacity > 0
      /\ lsq_head \in LSQ!Slot /\ lsq_tail \in LSQ!Slot
      /\ lsq_count \in Nat /\ lsq_count <= LsqCapacity
      /\ lsq_cur \in [LSQ!Slot -> Maybe(LSQ!LSQEntry)]
  BY HeadOfTheQueue DEF TypeOK
<1>2. /\ issue_entry \in Maybe(LSQ!LSQEntry) /\ cdb \in Maybe(CDBMsg)
      /\ LSQ!accepts(issue_entry) <=> issue_entry # None
  BY InputTypes DEF LSQ!accepts
<1>3. /\ lsq_cur' = [slot \in LSQ!Slot |-> LSQ!addressed(inserted[slot])]
      /\ lsq_head' = IF removed THEN LSQ!following(lsq_head) ELSE lsq_head
      /\ lsq_tail' = IF LSQ!accepts(issue_entry) THEN LSQ!following(lsq_tail) ELSE lsq_tail
      /\ lsq_count' = (lsq_count + (IF LSQ!accepts(issue_entry) THEN 1 ELSE 0))
                        - (IF removed THEN 1 ELSE 0)
      /\ lsq_load_result' = IF loaded # None THEN loaded
                            ELSE IF granted THEN None ELSE lsq_load_result
  BY DEF advance, asked_for, LSQ!apply, LSQ!advance, removed, loaded
<1>4. /\ removed \in BOOLEAN /\ sends \in BOOLEAN
      /\ removed => lsq_cur[lsq_head] # None /\ lsq_count # 0
      /\ sends => lsq_cur[lsq_head] # None
  BY HeadOfTheQueue DEF removed, LSQ!remove_head, LSQ!matching_response, asked_for,
     LSQ!memory_request
<1>5. ASSUME NEW slot \in LSQ!Slot
      PROVE  entries[slot] = IF slot = lsq_head /\ removed THEN None
                             ELSE IF slot = lsq_head /\ sends
                             THEN LSQ!mark_request_sent(LSQ!wake_entry(lsq_cur[slot], cdb))
                             ELSE LSQ!wake_entry(lsq_cur[slot], cdb)
  <2> HIDE DEF sends
  <2> QED
    BY <1>4, Served
<1>6. \A slot \in LSQ!Slot :
        inserted[slot] = IF issue_entry # None /\ slot = lsq_tail THEN issue_entry
                         ELSE entries[slot]
  BY <1>1, <1>2
<1> HIDE DEF inserted
<1>7. ASSUME NEW slot \in LSQ!Slot, stays(slot)
      PROVE  Continues(lsq_cur'[slot], lsq_cur[slot], cdb, slot = lsq_head /\ sends)
  <2> DEFINE old == lsq_cur[slot]
             woken == LSQ!wake_entry(old, cdb)
             sent == slot = lsq_head /\ sends
  <2>1. old \in LSQ!LSQEntry /\ sent \in BOOLEAN
    BY <1>1, <1>7 DEF stays, Maybe
  <2>2. entries[slot] = IF sent THEN LSQ!mark_request_sent(woken) ELSE woken
    BY <1>5, <1>7 DEF stays
  <2>3. slot # lsq_tail \/ issue_entry = None
    BY <1>7, HeadOfTheQueue, InputTypes DEF stays
  <2> HIDE DEF old, woken, sent, entries
  <2>4. lsq_cur'[slot] = LSQ!addressed(entries[slot])
    BY <1>3, <1>6, <2>3
  <2>5. Continues(LSQ!addressed(entries[slot]), old, cdb, sent)
    BY <1>2, <2>1, <2>2, EntryContinues DEF woken
  <2> QED
    BY <2>4, <2>5 DEF old, sent
<1>8. issue_entry # None =>
        /\ lsq_cur'[lsq_tail] = LSQ!addressed(issue_entry)
        /\ lsq_cur'[lsq_tail] \in LSQ!LSQEntry
  BY <1>1, <1>2, <1>3, <1>6, EntryAddressed DEF Maybe
<1>9. ASSUME NEW slot \in LSQ!Slot, ~stays(slot), ~(slot = lsq_tail /\ issue_entry # None)
      PROVE  lsq_cur'[slot] = None
  <2>1. entries[slot] = None
    BY <1>4, <1>5, <1>9 DEF stays, LSQ!wake_entry
  <2> HIDE DEF entries
  <2>2. LSQ!addressed(None) = None
    BY DEF LSQ!addressed
  <2> QED
    BY <1>3, <1>6, <1>9, <2>1, <2>2
<1>10. ASSUME NEW slot \in LSQ!Slot
       PROVE  lsq_cur'[slot] # None <=> stays(slot) \/ (slot = lsq_tail /\ issue_entry # None)
  BY <1>7, <1>8, <1>9, NothingAssumption DEF Continues
<1>11. lsq_cur' \in [LSQ!Slot -> Maybe(LSQ!LSQEntry)]
  <2>1. \A slot \in LSQ!Slot : lsq_cur'[slot] \in Maybe(LSQ!LSQEntry)
    BY <1>7, <1>8, <1>9 DEF Continues, Maybe
  <2>2. lsq_cur' = [slot \in LSQ!Slot |-> lsq_cur'[slot]]
    BY <1>3
  <2> QED
    BY <2>1, <2>2
<1> HIDE DEF entries
<1>12. /\ lsq_head' = IF ~removed THEN lsq_head
                      ELSE IF lsq_head + 1 = LsqCapacity THEN 0 ELSE lsq_head + 1
       /\ lsq_tail' = IF issue_entry = None THEN lsq_tail
                      ELSE IF lsq_tail + 1 = LsqCapacity THEN 0 ELSE lsq_tail + 1
       /\ lsq_count' = (lsq_count + (IF issue_entry = None THEN 0 ELSE 1))
                         - (IF removed THEN 1 ELSE 0)
  BY <1>1, <1>2, <1>3, Following
<1>13. issue_entry # None => lsq_count < LsqCapacity
  BY InputTypes, HeadOfTheQueue
<1>14. /\ lsq_head' \in LSQ!Slot /\ lsq_tail' \in LSQ!Slot /\ lsq_count' \in 0 .. LsqCapacity
  BY <1>1, <1>4, <1>12, <1>13 DEF LSQ!Slot
<1>15. QueueIsContiguous'
  <2>1. lsq_tail = IF lsq_head + lsq_count >= LsqCapacity
                   THEN lsq_head + lsq_count - LsqCapacity ELSE lsq_head + lsq_count
    BY DEF QueueIsContiguous
  <2>2. lsq_tail' = IF lsq_head' + lsq_count' >= LsqCapacity
                    THEN lsq_head' + lsq_count' - LsqCapacity ELSE lsq_head' + lsq_count'
    BY <1>1, <1>4, <1>12, <1>13, <2>1 DEF LSQ!Slot
  <2>3. ASSUME NEW slot \in LSQ!Slot
        PROVE  lsq_cur'[slot] # None <=> distance(slot)' < lsq_count'
    <3>1. lsq_cur'[slot] # None <=>
            \/ lsq_cur[slot] # None /\ (removed => slot # lsq_head)
            \/ slot = lsq_tail /\ issue_entry # None
      BY <1>10 DEF stays
    <3>2. lsq_cur[slot] # None <=> distance(slot) < lsq_count
      BY DEF QueueIsContiguous
    <3>3. distance(slot)' = IF slot >= lsq_head' THEN slot - lsq_head'
                            ELSE slot + LsqCapacity - lsq_head'
      BY DEF distance
    <3>4. slot \in Nat /\ slot < LsqCapacity /\ lsq_head \in Nat /\ lsq_head < LsqCapacity
      BY <1>1 DEF LSQ!Slot
    <3> QED
      BY <1>1, <1>4, <1>12, <1>13, <2>1, <3>1, <3>2, <3>3, <3>4 DEF distance
  <2> QED
    BY <2>2, <2>3 DEF QueueIsContiguous
<1> QED
  BY <1>3, <1>7, <1>8, <1>10, <1>11, <1>12, <1>14, <1>15

(* A request is made once, by a head that has all it needs.                *)
LEMMA Asking ==
  ASSUME IInv, NEW granted, asked_for(granted) # None
  PROVE  /\ LSQ!front # None /\ asked_for(granted) = LSQ!make_memory_request(LSQ!front)
         /\ ~LSQ!front.request_sent /\ transaction = None
         /\ LSQ!front.address_ready /\ LSQ!front.store_data.ready
         /\ is_load(LSQ!front.op) => lsq_load_result = None \/ granted
         /\ is_store(LSQ!front.op) => authorised = LSQ!front.destination
         /\ LSQ!front.op \in LoadOps \cup StoreOps
<1>1. /\ LSQ!front # None /\ asked_for(granted) = LSQ!make_memory_request(LSQ!front)
      /\ ~LSQ!front.request_sent /\ transaction = None /\ LSQ!front.address_ready
      /\ LSQ!may_send(authorised, granted)
  BY DEF asked_for, LSQ!memory_request, MEM!data_port_available
<1>2. LSQ!front = lsq_cur[lsq_head] /\ lsq_head \in LSQ!Slot
  BY <1>1, HeadOfTheQueue DEF IInv
<1>3. /\ LSQ!front.op \in LoadOps \cup StoreOps
      /\ is_load(LSQ!front.op) => LSQ!front.store_data.ready
  BY <1>1, <1>2 DEF IInv, EntriesAreAccesses
<1> QED
  BY <1>1, <1>3, SameOperations DEF LSQ!may_send, is_load, is_store, LoadOps, StoreOps

(* Nothing leaves the queue but on the answer to its own request.          *)
LEMMA Answered ==
  ASSUME IInv, LSQ!matching_response(response)
  PROVE  /\ asked /\ LSQ!front # None /\ response # None /\ transaction = None
         /\ response = MEM!response_to(LSQ!make_memory_request(LSQ!front))
<1>1. LSQ!front # None /\ response # None /\ LSQ!front.destination = response.tag
  BY DEF LSQ!matching_response
<1>2. LSQ!front = lsq_cur[lsq_head] /\ lsq_head \in LSQ!Slot
  BY <1>1, HeadOfTheQueue DEF IInv
<1>3. ~Abandoned(response.tag)
  BY <1>1, <1>2 DEF Abandoned
<1> QED
  BY <1>1, <1>3 DEF IInv, ResponseIsKnown

LEMMA RequestType ==
  ASSUME TypeOK, QueueIsContiguous, LSQ!front # None
  PROVE  LSQ!make_memory_request(LSQ!front) \in MEM!DataMemoryRequest
<1>1. LSQ!front \in LSQ!LSQEntry
  BY HeadOfTheQueue
<1>2. LSQ!front.store_data.value \in Word
  BY <1>1, SameRecords DEF Operand
<1> QED
  BY <1>1, <1>2, SameRecords, SameOperations, Sizes DEF LSQ!make_memory_request

(* What memory answers. *)
LEMMA AnswerType ==
  ASSUME memory \in Image, NEW request \in MEM!DataMemoryRequest
  PROVE  /\ MEM!response_to(request) \in MEM!DataMemoryResponse
         /\ MEM!response_to(request).tag = request.tag
         /\ MEM!response_to(request).is_store = request.is_store
         /\ MEM!response_to(request).success = MEM!in_bounds(request.address, request.width)
         /\ ~request.is_store /\ MEM!in_bounds(request.address, request.width) =>
              MEM!response_to(request).value
                = MEM!read(memory, request.address, request.width)
<1> DEFINE bytes == MEM!read(memory, request.address, request.width)
           within == MEM!in_bounds(request.address, request.width)
           value == IF request.is_store \/ bytes = None THEN 0 ELSE bytes
<1>1. /\ request.tag \in RobTag /\ request.is_store \in BOOLEAN
      /\ request.address \in Word /\ request.width \in MemoryWidth
      /\ within \in BOOLEAN
  BY SameRecords, SameMemory
<1>2. within => bytes \in Word
  <2>1. ASSUME within PROVE bytes \in 0 .. Limit(request.width) - 1
    BY <1>1, <2>1, Reading
  <2>2. Limit(request.width) \in Nat /\ Limit(request.width) <= WordSize
    BY <1>1, Limits
  <2> QED
    BY <2>1, <2>2, Sizes DEF Word
<1>3. ~within => bytes = None
  BY DEF MEM!read, MEM!in_bounds
<1>4. MEM!response_to(request) =
        [tag |-> request.tag, value |-> value, is_store |-> request.is_store, success |-> within]
  BY Zenon DEF MEM!response_to
<1>5. value \in Word /\ (~request.is_store /\ within => value = bytes)
  BY <1>2, <1>3, Sizes, NothingAssumption
<1> HIDE DEF value, bytes, within
<1> QED
  BY <1>1, <1>4, <1>5, SameRecords DEF bytes, within

(* Memory: a request is taken when the port is free and answered later.    *)
LEMMA CycleOfMemory ==
  ASSUME IInv, NEW request \in Maybe(MEM!DataMemoryRequest),
         request # None => transaction = None,
         MEM!apply(request)
  PROVE  /\ memory' \in Image
         /\ transaction' \in Maybe(MEM!DataTransaction)
         /\ response' \in Maybe(MEM!DataMemoryResponse)
         /\ request # None => transaction' # None /\ transaction'.request = request
         /\ transaction' # None /\ request = None =>
              transaction # None /\ transaction'.request = transaction.request
         /\ response' # None => transaction' = None
         /\ response' # None =>
              /\ transaction # None /\ transaction.request \in MEM!DataMemoryRequest
              /\ response' = MEM!response_to(transaction.request)
              /\ memory' = MEM!written(transaction.request)
         /\ response' = None => memory' = memory
<1>1. MEM!DataTransaction = [request : MEM!DataMemoryRequest, remaining_cycles : 1 .. DataLatency]
  BY DEF MEM!DataTransaction
<1>2. transaction # None =>
        /\ transaction \in MEM!DataTransaction
        /\ transaction.request \in MEM!DataMemoryRequest
        /\ transaction.remaining_cycles \in 1 .. DataLatency
  BY <1>1 DEF IInv, TypeOK, Maybe
<1>3. DataLatency \in Nat \ {0} /\ memory \in Image
  BY MemorySystemAssumption DEF IInv, TypeOK
<1>4. MEM!accepts(request) <=> request # None
  BY DEF MEM!accepts
<1>5. MEM!completes => transaction # None /\ request = None
  BY DEF MEM!completes
<1>6. transaction' = IF request # None
                     THEN [request |-> request, remaining_cycles |-> DataLatency]
                     ELSE IF transaction = None \/ MEM!completes THEN None
                     ELSE [transaction EXCEPT !.remaining_cycles = @ - 1]
  BY <1>4 DEF MEM!apply, MEM!next_transaction
<1>7. /\ transaction' \in Maybe(MEM!DataTransaction)
      /\ request # None => transaction' # None /\ transaction'.request = request
      /\ transaction' # None /\ request = None =>
           transaction # None /\ transaction'.request = transaction.request
  <2>1. CASE request # None
    <3> DEFINE taken == [request |-> request, remaining_cycles |-> DataLatency]
    <3>1. taken \in MEM!DataTransaction /\ taken.request = request
      BY <1>1, <1>3, <2>1 DEF Maybe
    <3>2. transaction' = taken
      BY <1>6, <2>1
    <3> HIDE DEF taken
    <3> QED
      BY <2>1, <3>1, <3>2, NothingAssumption DEF Maybe
  <2>2. CASE request = None /\ (transaction = None \/ MEM!completes)
    BY <1>6, <2>2 DEF Maybe
  <2>3. CASE request = None /\ ~(transaction = None \/ MEM!completes)
    <3>1. transaction' = [transaction EXCEPT !.remaining_cycles = @ - 1]
      BY <1>6, <2>3
    <3>2. transaction.remaining_cycles \in 2 .. DataLatency
      BY <1>2, <1>3, <2>3 DEF MEM!completes
    <3>3. transaction' \in MEM!DataTransaction /\ transaction'.request = transaction.request
      BY <1>1, <1>2, <1>3, <2>3, <3>1, <3>2
    <3> QED
      BY <2>3, <3>3 DEF Maybe
  <2> QED
    BY <2>1, <2>2, <2>3
<1>8. CASE MEM!completes
  <2>1. /\ response' = MEM!response_to(transaction.request)
        /\ memory' = MEM!written(transaction.request) /\ transaction' = None
    BY <1>5, <1>6, <1>8 DEF MEM!apply
  <2>2. MEM!response_to(transaction.request) \in MEM!DataMemoryResponse
    BY <1>2, <1>3, <1>5, <1>8, AnswerType
  <2>3. MEM!written(transaction.request) \in Image
    <3>1. /\ transaction.request.address \in Word /\ transaction.request.value \in Word
          /\ transaction.request.width \in MemoryWidth
      BY <1>2, <1>5, <1>8, SameRecords
    <3> QED
      BY <1>3, <3>1, Writing DEF MEM!written
  <2> QED
    BY <1>2, <1>5, <1>7, <1>8, <2>1, <2>2, <2>3, NothingAssumption DEF Maybe
<1>9. CASE ~MEM!completes
  BY <1>3, <1>7, <1>9 DEF MEM!apply, Maybe
<1> QED
  BY <1>8, <1>9

----------------------------------------------------------------------------
(* The invariant is kept by a cycle without a flush. *)

(* The head of the queue through a cycle in which it stays.                *)
LEMMA HeadContinues ==
  ASSUME IInv, NEW issue_entry, NEW cdb, NEW granted,
         Inputs(issue_entry, cdb, granted), advance(issue_entry, cdb, granted, FALSE),
         LSQ!front # None, ~removed
  PROVE  /\ LSQ!front' # None
         /\ Continues(LSQ!front', LSQ!front, cdb, asked_for(granted) # None)
         /\ asked \/ asked_for(granted) # None =>
              /\ asked'
              /\ LSQ!make_memory_request(LSQ!front)' = LSQ!make_memory_request(LSQ!front)
<1>1. /\ lsq_head \in LSQ!Slot /\ lsq_cur[lsq_head] # None /\ LSQ!front = lsq_cur[lsq_head]
      /\ lsq_count # 0 /\ lsq_count \in Nat /\ LSQ!front \in LSQ!LSQEntry
  BY HeadOfTheQueue DEF IInv, TypeOK
<1>2. stays(lsq_head)
  BY <1>1 DEF stays
<1>3. /\ lsq_head' = lsq_head /\ lsq_count' # 0
      /\ Continues(lsq_cur'[lsq_head], lsq_cur[lsq_head], cdb, asked_for(granted) # None)
  <2> DEFINE sends == asked_for(granted) # None
  <2>1. Continues(lsq_cur'[lsq_head], lsq_cur[lsq_head], cdb, lsq_head = lsq_head /\ sends)
    BY <1>1, <1>2, CycleOfTheQueue DEF IInv
  <2>2. (lsq_head = lsq_head /\ sends) = sends
    OBVIOUS
  <2>3. /\ lsq_head' = lsq_head
        /\ lsq_count' = (lsq_count + (IF issue_entry = None THEN 0 ELSE 1)) - 0
    BY CycleOfTheQueue DEF IInv
  <2> HIDE DEF sends
  <2>4. Continues(lsq_cur'[lsq_head], lsq_cur[lsq_head], cdb, sends)
    BY <2>1, <2>2
  <2> QED
    BY <1>1, <2>3, <2>4 DEF sends
<1>4. LSQ!front' = lsq_cur'[lsq_head]
  BY <1>3 DEF LSQ!front, LSQ!empty
<1>5. Continues(LSQ!front', LSQ!front, cdb, asked_for(granted) # None) /\ LSQ!front' # None
  BY <1>1, <1>3, <1>4, NothingAssumption DEF Continues
<1>6. ASSUME asked \/ asked_for(granted) # None
      PROVE  /\ asked'
             /\ LSQ!make_memory_request(LSQ!front)' = LSQ!make_memory_request(LSQ!front)
  <2>1. LSQ!front.address_ready /\ LSQ!front.store_data.ready
    BY <1>1, <1>6, Asking DEF asked, IInv, RequestsAreFinal
  <2>2. /\ LSQ!front'.op = LSQ!front.op /\ LSQ!front'.destination = LSQ!front.destination
        /\ LSQ!front'.address = LSQ!front.address
        /\ LSQ!front'.store_data = LSQ!front.store_data
        /\ LSQ!front'.request_sent
    BY <1>5, <1>6, <2>1 DEF Continues, LSQ!wake_operand, asked
  <2> QED
    BY <1>5, <2>2 DEF asked, LSQ!make_memory_request
<1> QED
  BY <1>5, <1>6

(* Whoever has asked afterwards was the head before, and stayed.           *)
LEMMA AskedStayed ==
  ASSUME IInv, NEW issue_entry, NEW cdb, NEW granted,
         Inputs(issue_entry, cdb, granted), advance(issue_entry, cdb, granted, FALSE),
         NEW slot \in LSQ!Slot, lsq_cur'[slot] # None, lsq_cur'[slot].request_sent
  PROVE  /\ slot = lsq_head /\ lsq_head' = lsq_head /\ ~removed /\ LSQ!front # None
         /\ Continues(lsq_cur'[slot], LSQ!front, cdb, asked_for(granted) # None)
         /\ asked \/ asked_for(granted) # None
<1>1. stays(slot)
  <2>1. CASE slot = lsq_tail /\ issue_entry # None
    <3>1. issue_entry \in LSQ!LSQEntry /\ ~issue_entry.request_sent
      BY <2>1, InputTypes DEF IInv, Maybe
    <3>2. lsq_cur'[slot] = LSQ!addressed(issue_entry)
      BY <2>1, CycleOfTheQueue DEF IInv
    <3> QED
      BY <3>1, <3>2, EntryAddressed
  <2>2. CASE ~(slot = lsq_tail /\ issue_entry # None)
    BY <2>2, CycleOfTheQueue DEF IInv
  <2> QED
    BY <2>1, <2>2
<1>2. Continues(lsq_cur'[slot], lsq_cur[slot], cdb, slot = lsq_head /\ asked_for(granted) # None)
  BY <1>1, CycleOfTheQueue DEF IInv
<1>3. lsq_cur[slot].request_sent \/ (slot = lsq_head /\ asked_for(granted) # None)
  BY <1>2 DEF Continues
<1>4. slot = lsq_head
  BY <1>1, <1>3 DEF stays, IInv, RequestsAreFinal
<1>5. ~removed /\ LSQ!front # None /\ LSQ!front = lsq_cur[slot]
  BY <1>1, <1>4, HeadOfTheQueue DEF stays, IInv
<1>6. lsq_head' = lsq_head
  BY <1>5, CycleOfTheQueue DEF IInv
<1>7. /\ Continues(lsq_cur'[slot], LSQ!front, cdb, asked_for(granted) # None)
      /\ asked \/ asked_for(granted) # None
  BY <1>2, <1>3, <1>4, <1>5 DEF asked
<1> QED
  BY <1>4, <1>5, <1>6, <1>7

LEMMA HeadAsked ==
  ASSUME IInv, NEW issue_entry, NEW cdb, NEW granted,
         Inputs(issue_entry, cdb, granted), advance(issue_entry, cdb, granted, FALSE),
         asked'
  PROVE  /\ ~removed /\ LSQ!front # None
         /\ Continues(LSQ!front', LSQ!front, cdb, asked_for(granted) # None)
         /\ asked \/ asked_for(granted) # None
<1>1. /\ lsq_head' \in LSQ!Slot /\ QueueIsContiguous' /\ lsq_count' \in 0 .. LsqCapacity
      /\ lsq_cur' \in [LSQ!Slot -> Maybe(LSQ!LSQEntry)]
  BY CycleOfTheQueue DEF IInv
<1>2. /\ LSQ!front' = lsq_cur'[lsq_head'] /\ LSQ!front' # None /\ LSQ!front'.request_sent
  BY DEF asked, LSQ!front
<1>3. lsq_head' = lsq_head
  BY <1>1, <1>2, AskedStayed
<1> QED
  BY <1>1, <1>2, <1>3, AskedStayed

(* A cycle of the two components, whatever the core does in it.            *)
CycleWith(issue_entry, cdb, granted) ==
  /\ Inputs(issue_entry, cdb, granted) /\ advance(issue_entry, cdb, granted, FALSE)
  /\ authorised' \in next_authorised(LSQ!store_completion(response, FALSE))

(* Afterwards the queue holds those that stay and the one that joined.     *)
LEMMA Afterwards ==
  ASSUME IInv, NEW issue_entry, NEW cdb, NEW granted,
         CycleWith(issue_entry, cdb, granted),
         NEW slot \in LSQ!Slot, lsq_cur'[slot] # None
  PROVE  \/ /\ stays(slot) /\ lsq_cur'[slot].op = lsq_cur[slot].op
            /\ lsq_cur'[slot].destination = lsq_cur[slot].destination
            /\ is_load(lsq_cur[slot].op) =>
                 lsq_cur'[slot].store_data = lsq_cur[slot].store_data
         \/ /\ slot = lsq_tail /\ issue_entry # None
            /\ lsq_cur'[slot].op \in LoadOps \cup StoreOps
            /\ is_load(lsq_cur'[slot].op) => lsq_cur'[slot].store_data.ready
            /\ lsq_cur'[slot].destination = issue_entry.destination
            /\ lsq_cur'[slot].destination \notin tags_in_use
<1>1. CASE stays(slot)
  <2>1. Continues(lsq_cur'[slot], lsq_cur[slot], cdb, slot = lsq_head /\ asked_for(granted) # None)
    BY <1>1, CycleOfTheQueue DEF IInv, CycleWith
  <2> QED
    BY <1>1, <2>1 DEF Continues, is_load, is_store, LoadOps, StoreOps
<1>2. CASE ~stays(slot)
  <2>1. slot = lsq_tail /\ issue_entry # None /\ lsq_cur'[slot] = LSQ!addressed(issue_entry)
    BY <1>2, CycleOfTheQueue DEF IInv, CycleWith
  <2>2. /\ issue_entry \in LSQ!LSQEntry /\ issue_entry.op \in LoadOps \cup StoreOps
        /\ is_load(issue_entry.op) => issue_entry.store_data.ready
        /\ issue_entry.destination \notin tags_in_use
    BY <2>1, InputTypes DEF IInv, CycleWith, Maybe
  <2> QED
    BY <2>1, <2>2, EntryAddressed
<1> QED
  BY <1>1, <1>2

LEMMA EntriesStayAccesses ==
  ASSUME IInv, NEW issue_entry, NEW cdb, NEW granted, CycleWith(issue_entry, cdb, granted)
  PROVE  EntriesAreAccesses'
<1>1. ASSUME NEW slot \in LSQ!Slot, lsq_cur'[slot] # None
      PROVE  /\ lsq_cur'[slot].op \in LoadOps \cup StoreOps
             /\ is_load(lsq_cur'[slot].op) => lsq_cur'[slot].store_data.ready
  BY <1>1, Afterwards DEF IInv, EntriesAreAccesses, stays
<1>2. ASSUME NEW slot \in LSQ!Slot, stays(slot)
      PROVE  lsq_cur[slot].destination \in tags_in_use
  BY <1>2 DEF stays, tags_in_use, queued_tags, queued
<1>3. ASSUME NEW slot \in LSQ!Slot, lsq_cur'[slot] # None,
             NEW other \in LSQ!Slot, lsq_cur'[other] # None, other # slot
      PROVE  lsq_cur'[other].destination # lsq_cur'[slot].destination
  <2>1. CASE stays(slot) /\ stays(other)
    <3>1. lsq_cur[other].destination # lsq_cur[slot].destination
      BY <1>3, <2>1 DEF IInv, EntriesAreAccesses, stays
    <3>2. issue_entry # None => lsq_cur[lsq_tail] = None
      BY HeadOfTheQueue, InputTypes DEF IInv, CycleWith
    <3>3. lsq_cur'[slot].destination = lsq_cur[slot].destination
      BY <1>3, <2>1, <3>2, Afterwards DEF stays
    <3>4. lsq_cur'[other].destination = lsq_cur[other].destination
      BY <1>3, <2>1, <3>2, Afterwards DEF stays
    <3> QED
      BY <3>1, <3>3, <3>4
  <2>2. CASE ~stays(slot)
    <3>1. slot = lsq_tail /\ lsq_cur'[slot].destination \notin tags_in_use
      BY <1>3, <2>2, Afterwards
    <3>2. stays(other) /\ lsq_cur'[other].destination = lsq_cur[other].destination
      BY <1>3, <3>1, Afterwards
    <3> QED
      BY <1>2, <3>1, <3>2
  <2>3. CASE ~stays(other)
    <3>1. other = lsq_tail /\ lsq_cur'[other].destination \notin tags_in_use
      BY <1>3, <2>3, Afterwards
    <3>2. stays(slot) /\ lsq_cur'[slot].destination = lsq_cur[slot].destination
      BY <1>3, <3>1, Afterwards
    <3> QED
      BY <1>2, <3>1, <3>2
  <2> QED
    BY <2>1, <2>2, <2>3
<1> QED
  BY <1>1, <1>3 DEF EntriesAreAccesses

LEMMA AbandonedStays ==
  ASSUME IInv, NEW issue_entry, NEW cdb, NEW granted, CycleWith(issue_entry, cdb, granted),
         NEW tag \in tags_in_use, Abandoned(tag)
  PROVE  \A slot \in LSQ!Slot : lsq_cur'[slot] # None => lsq_cur'[slot].destination # tag
BY Afterwards DEF Abandoned, stays

(* What the head has or gets when it asks no longer changes.               *)
LEMMA RequestsStayFinal ==
  ASSUME IInv, NEW issue_entry, NEW cdb, NEW granted, CycleWith(issue_entry, cdb, granted)
  PROVE  RequestsAreFinal'
<1>1. ASSUME NEW slot \in LSQ!Slot, lsq_cur'[slot] # None, lsq_cur'[slot].request_sent
      PROVE  /\ slot = lsq_head'
             /\ lsq_cur'[slot].address_ready /\ lsq_cur'[slot].store_data.ready
  <2>1. /\ slot = lsq_head /\ lsq_head' = lsq_head /\ LSQ!front # None
        /\ Continues(lsq_cur'[slot], LSQ!front, cdb, asked_for(granted) # None)
        /\ asked \/ asked_for(granted) # None
    BY <1>1, AskedStayed DEF CycleWith
  <2>2. LSQ!front.address_ready /\ LSQ!front.store_data.ready
    <3>1. LSQ!front = lsq_cur[lsq_head]
      BY <2>1, HeadOfTheQueue DEF IInv
    <3> QED
      BY <2>1, <3>1, Asking DEF asked, IInv, RequestsAreFinal
  <2> QED
    BY <2>1, <2>2 DEF Continues, LSQ!wake_operand
<1> QED
  BY <1>1 DEF RequestsAreFinal

LEMMA RequestsStayTimely ==
  ASSUME IInv, NEW issue_entry, NEW cdb, NEW granted, CycleWith(issue_entry, cdb, granted),
         asked'
  PROVE  IF is_load(LSQ!front'.op) THEN lsq_load_result' = None
         ELSE authorised' = LSQ!front'.destination
<1>1. /\ ~removed /\ LSQ!front # None
      /\ Continues(LSQ!front', LSQ!front, cdb, asked_for(granted) # None)
      /\ asked \/ asked_for(granted) # None
  BY HeadAsked DEF CycleWith
<1>2. LSQ!front \in LSQ!LSQEntry /\ LSQ!front.op \in LoadOps \cup StoreOps
  BY <1>1, HeadOfTheQueue DEF IInv, EntriesAreAccesses
<1>3. LSQ!front'.op = LSQ!front.op /\ LSQ!front'.destination = LSQ!front.destination
  BY <1>1 DEF Continues
<1>4. CASE is_load(LSQ!front.op)
  <2>1. lsq_load_result = None \/ granted
    BY <1>1, <1>4, Asking DEF IInv, RequestsAreTimely
  <2>2. loaded = None
    BY <1>1 DEF loaded, LSQ!completed_load_result, removed
  <2>3. lsq_load_result' = IF loaded # None THEN loaded
                           ELSE IF granted THEN None ELSE lsq_load_result
    BY DEF CycleWith, advance, LSQ!apply, LSQ!advance, loaded
  <2> QED
    BY <1>3, <1>4, <2>1, <2>2, <2>3
<1>5. CASE ~is_load(LSQ!front.op)
  <2>1. is_store(LSQ!front.op)
    BY <1>2, <1>5 DEF is_load, is_store
  <2>2. authorised = LSQ!front.destination
    BY <1>1, <1>5, <2>1, Asking DEF IInv, RequestsAreTimely
  <2>3. authorised # None
    BY <1>2, <2>2, SameRecords, NoneAssumption
  <2>4. LSQ!store_completion(response, FALSE) = None
    BY <1>1 DEF LSQ!store_completion, removed
  <2> QED
    BY <1>3, <1>5, <2>2, <2>3, <2>4 DEF CycleWith, next_authorised
<1> QED
  BY <1>4, <1>5

LEMMA AuthorisedStaysHead ==
  ASSUME IInv, NEW issue_entry, NEW cdb, NEW granted, CycleWith(issue_entry, cdb, granted)
  PROVE  AuthorisedIsHead'
<1> DEFINE completed == LSQ!store_completion(response, FALSE)
<1>1. CASE authorised # None /\ completed = None
  <2>1. LSQ!front # None /\ is_store(LSQ!front.op) /\ LSQ!front.destination = authorised
    BY <1>1 DEF IInv, AuthorisedIsHead
  <2>2. ~removed
    BY <1>1, <2>1, SameOperations DEF LSQ!store_completion, removed
  <2>3. LSQ!front' # None /\ Continues(LSQ!front', LSQ!front, cdb, asked_for(granted) # None)
    BY <2>1, <2>2, HeadContinues DEF CycleWith
  <2>4. authorised' = authorised
    BY <1>1 DEF CycleWith, next_authorised
  <2> QED
    BY <2>1, <2>3, <2>4 DEF Continues, AuthorisedIsHead
<1>2. CASE ~(authorised # None /\ completed = None)
  <2>1. authorised' # None =>
          LSQ!front' # None /\ is_store(LSQ!front'.op) /\ LSQ!front'.destination = authorised'
    BY <1>2 DEF CycleWith, next_authorised
  <2> QED
    BY <2>1 DEF AuthorisedIsHead
<1> QED
  BY <1>1, <1>2

(* What memory does in such a cycle.                                       *)
LEMMA MemoryInCycle ==
  ASSUME IInv, NEW issue_entry, NEW cdb, NEW granted, CycleWith(issue_entry, cdb, granted)
  PROVE  /\ memory' \in Image
         /\ transaction' \in Maybe(MEM!DataTransaction)
         /\ response' \in Maybe(MEM!DataMemoryResponse)
         /\ asked_for(granted) # None =>
              transaction' # None /\ transaction'.request = asked_for(granted)
         /\ transaction' # None /\ asked_for(granted) = None =>
              transaction # None /\ transaction'.request = transaction.request
         /\ response' # None =>
              /\ transaction' = None
              /\ transaction # None /\ transaction.request \in MEM!DataMemoryRequest
              /\ response' = MEM!response_to(transaction.request)
              /\ memory' = MEM!written(transaction.request)
         /\ response' = None => memory' = memory
<1>1. asked_for(granted) # None => transaction = None
  BY Asking
<1>2. asked_for(granted) \in Maybe(MEM!DataMemoryRequest)
  BY Asking, RequestType DEF IInv, Maybe
<1>3. MEM!apply(asked_for(granted))
  BY DEF CycleWith, advance, asked_for
<1> QED
  BY <1>1, <1>2, <1>3, CycleOfMemory

LEMMA TransactionStaysKnown ==
  ASSUME IInv, NEW issue_entry, NEW cdb, NEW granted, CycleWith(issue_entry, cdb, granted)
  PROVE  TransactionIsKnown'
<1> SUFFICES ASSUME transaction' # None
             PROVE  \/ /\ asked'
                       /\ transaction'.request = LSQ!make_memory_request(LSQ!front)'
                    \/ /\ ~transaction'.request.is_store
                       /\ Abandoned(transaction.request.tag)'
  BY DEF TransactionIsKnown
<1>1. CASE asked_for(granted) # None
  <2>1. ~removed
    BY <1>1, Asking, Answered DEF removed, LSQ!remove_head, asked
  <2> QED
    BY <1>1, <2>1, Asking, MemoryInCycle, HeadContinues DEF CycleWith
<1>2. CASE asked_for(granted) = None
  <2>1. transaction # None /\ transaction'.request = transaction.request
    BY <1>2, MemoryInCycle
  <2>2. ~removed
    BY <2>1, Answered DEF removed, LSQ!remove_head
  <2>3. CASE asked /\ transaction.request = LSQ!make_memory_request(LSQ!front)
    <3>1. LSQ!front # None
      BY <2>3 DEF asked
    <3> QED
      BY <2>1, <2>2, <2>3, <3>1, HeadContinues DEF CycleWith
  <2>4. CASE ~transaction.request.is_store /\ Abandoned(transaction.request.tag)
    <3>1. transaction.request.tag \in tags_in_use
      BY <2>1 DEF tags_in_use
    <3> QED
      BY <2>1, <2>4, <3>1, AbandonedStays DEF Abandoned
  <2> QED
    BY <2>1, <2>3, <2>4 DEF IInv, TransactionIsKnown
<1> QED
  BY <1>1, <1>2

LEMMA ResponseStaysKnown ==
  ASSUME IInv, NEW issue_entry, NEW cdb, NEW granted, CycleWith(issue_entry, cdb, granted)
  PROVE  ResponseIsKnown'
<1> SUFFICES ASSUME response' # None
             PROVE  /\ transaction' = None
                    /\ \/ /\ asked'
                          /\ response' = MEM!response_to(LSQ!make_memory_request(LSQ!front))'
                       \/ ~response'.is_store /\ Abandoned(response.tag)'
  BY DEF ResponseIsKnown
<1> DEFINE request == transaction.request
<1>1. /\ transaction' = None
      /\ transaction # None /\ request \in MEM!DataMemoryRequest
      /\ response' = MEM!response_to(request)
      /\ memory' = MEM!written(request)
  BY MemoryInCycle
<1>2. ~removed
  BY <1>1, Answered DEF removed, LSQ!remove_head
<1>3. CASE asked /\ request = LSQ!make_memory_request(LSQ!front)
  <2>1. LSQ!front # None
    BY <1>3 DEF asked
  <2>2. asked' /\ LSQ!make_memory_request(LSQ!front)' = request
    BY <1>2, <1>3, <2>1, HeadContinues DEF CycleWith
  <2>3. request.is_store \in BOOLEAN
    BY <1>1, SameRecords
  <2>4. ~request.is_store => memory' = memory
    BY <1>1 DEF MEM!written
  <2>5. MEM!response_to(LSQ!make_memory_request(LSQ!front))' = MEM!response_to(request)
    <3>1. CASE request.is_store
      BY <2>2, <3>1 DEF MEM!response_to
    <3>2. CASE ~request.is_store
      <4>1. memory' = memory
        BY <2>4, <3>2
      <4> QED
        BY <2>2, <4>1 DEF MEM!response_to
    <3> QED
      BY <3>1, <3>2
  <2> QED
    BY <1>1, <2>2, <2>5
<1>4. CASE ~request.is_store /\ Abandoned(request.tag)
  <2>1. request.tag \in tags_in_use
    BY <1>1 DEF tags_in_use
  <2>2. response'.tag = request.tag /\ response'.is_store = request.is_store
    BY <1>1, AnswerType DEF IInv, TypeOK
  <2> QED
    BY <1>1, <1>4, <2>1, <2>2, AbandonedStays DEF Abandoned
<1> QED
  BY <1>1, <1>3, <1>4 DEF IInv, TransactionIsKnown

(* What the head of the queue loads.                                       *)
LEMMA LoadedValue ==
  ASSUME IInv, removed, is_load(LSQ!front.op)
  PROVE  LET value == MEM!read(memory, LSQ!front.address, LSQ!memory_width(LSQ!front.op))
         IN  /\ MEM!in_bounds(LSQ!front.address, LSQ!memory_width(LSQ!front.op))
             /\ value \in 0 .. Limit(LSQ!memory_width(LSQ!front.op)) - 1
             /\ loaded \in FUResult /\ loaded.tag = LSQ!front.destination
             /\ loaded.result = LSQ!extend_load_result(LSQ!front.op, value)
<1> DEFINE request == LSQ!make_memory_request(LSQ!front)
           width == LSQ!memory_width(LSQ!front.op)
           value == MEM!read(memory, LSQ!front.address, width)
<1>1. /\ LSQ!front # None /\ response = MEM!response_to(request) /\ response.success
  BY Answered DEF removed, LSQ!remove_head
<1>2. LSQ!front \in LSQ!LSQEntry /\ width \in MemoryWidth /\ memory \in Image
  BY <1>1, HeadOfTheQueue, SameOperations DEF IInv, TypeOK
<1>3. request \in MEM!DataMemoryRequest
  BY <1>1, RequestType DEF IInv
<1>4. /\ ~request.is_store /\ request.address = LSQ!front.address /\ request.width = width
  BY SameOperations DEF LSQ!make_memory_request, is_load, is_store, LoadOps, StoreOps
<1>5. /\ MEM!in_bounds(LSQ!front.address, width) /\ response.value = value
  BY <1>1, <1>2, <1>3, <1>4, AnswerType
<1>6. value \in 0 .. Limit(width) - 1
  BY <1>2, <1>5, Reading, SameRecords
<1>7. LSQ!extend_load_result(LSQ!front.op, value) \in Word
  BY <1>6, Loading
<1>8. loaded = [tag |-> LSQ!front.destination,
                result |-> LSQ!extend_load_result(LSQ!front.op, value),
                actual_next_pc |-> 0, branch_taken |-> FALSE, has_control_result |-> FALSE]
  BY <1>5, SameOperations DEF loaded, LSQ!completed_load_result, removed
<1> HIDE DEF value, width, request
<1>9. loaded \in FUResult
  BY <1>2, <1>7, <1>8, SameRecords, Sizes
<1> QED
  BY <1>5, <1>6, <1>8, <1>9 DEF value, width

LEMMA TypesStay ==
  ASSUME IInv, NEW issue_entry, NEW cdb, NEW granted, CycleWith(issue_entry, cdb, granted)
  PROVE  TypeOK'
<1>1. lsq_load_result' \in Maybe(FUResult)
  <2>1. loaded # None => loaded \in FUResult
    BY LoadedValue, SameOperations DEF loaded, LSQ!completed_load_result, removed
  <2>2. lsq_load_result' = IF loaded # None THEN loaded
                           ELSE IF granted THEN None ELSE lsq_load_result
    BY DEF CycleWith, advance, LSQ!apply, LSQ!advance, loaded
  <2> QED
    BY <2>1, <2>2 DEF IInv, TypeOK, Maybe
<1>2. authorised' \in Maybe(RobTag)
  <2>1. \/ authorised' = authorised
        \/ authorised' = None
        \/ LSQ!front' # None /\ authorised' = LSQ!front'.destination
    BY DEF CycleWith, next_authorised
  <2>2. LSQ!front' # None => LSQ!front' \in LSQ!LSQEntry
    BY CycleOfTheQueue DEF IInv, CycleWith, LSQ!front, Maybe
  <2> QED
    BY <2>1, <2>2, SameRecords DEF IInv, TypeOK, Maybe
<1>3. stopped' \in BOOLEAN
  BY DEF CycleWith, advance, LSQ!memory_error
<1> QED
  BY <1>1, <1>2, <1>3, CycleOfTheQueue, MemoryInCycle DEF IInv, CycleWith, TypeOK

LEMMA CycleKeepsInvariant ==
  ASSUME IInv, NEW issue_entry, NEW cdb, NEW granted, CycleWith(issue_entry, cdb, granted)
  PROVE  IInv'
<1>1. QueueIsContiguous'
  BY CycleOfTheQueue DEF IInv, CycleWith
<1>2. RequestsAreTimely'
  BY RequestsStayTimely DEF RequestsAreTimely
<1> QED
  BY <1>1, <1>2, TypesStay, EntriesStayAccesses, RequestsStayFinal, AuthorisedStaysHead,
     TransactionStaysKnown, ResponseStaysKnown DEF IInv

(* A flush empties the queue.  Memory may still serve a load; a store it   *)
(* cannot serve, for a store that has been sent is at the head of the ring *)
(* and no control instruction is.                                          *)
LEMMA ServedIsLoad ==
  ASSUME IInv, authorised = None, transaction # None
  PROVE  ~transaction.request.is_store
<1>1. CASE asked /\ transaction.request = LSQ!make_memory_request(LSQ!front)
  <2>1. LSQ!front # None /\ LSQ!front \in LSQ!LSQEntry
    BY <1>1, HeadOfTheQueue DEF asked, IInv
  <2>2. LSQ!front.destination # None
    BY <2>1, SameRecords, NoneAssumption
  <2>3. is_load(LSQ!front.op)
    BY <1>1, <2>2 DEF IInv, RequestsAreTimely
  <2>4. ~LSQ!make_memory_request(LSQ!front).is_store
    BY <2>3, SameOperations
       DEF LSQ!make_memory_request, is_load, is_store, LoadOps, StoreOps
  <2> QED
    BY <1>1, <2>4
<1> QED
  BY <1>1 DEF IInv, TransactionIsKnown

LEMMA FlushOfTheTwo ==
  ASSUME IInv, Flush
  PROVE  /\ LSQ!clear /\ MEM!apply(None) /\ authorised = None /\ authorised' = None
         /\ stopped' = FALSE /\ memory' = memory
         /\ transaction' # None =>
              transaction # None /\ transaction'.request = transaction.request
         /\ response' # None =>
              /\ transaction' = None /\ transaction # None
              /\ response' = MEM!response_to(transaction.request)
              /\ ~response'.is_store
         /\ transaction' \in Maybe(MEM!DataTransaction)
         /\ response' \in Maybe(MEM!DataMemoryResponse)
<1>1. /\ LSQ!clear /\ MEM!apply(None) /\ authorised = None /\ authorised' = None
      /\ stopped' = FALSE
  BY DEF Flush, advance, LSQ!apply, LSQ!memory_request, LSQ!memory_error
<1>2. None \in Maybe(MEM!DataMemoryRequest)
  BY DEF Maybe
<1>3. /\ transaction' \in Maybe(MEM!DataTransaction)
      /\ response' \in Maybe(MEM!DataMemoryResponse)
      /\ transaction' # None =>
           transaction # None /\ transaction'.request = transaction.request
      /\ response' # None =>
           /\ transaction' = None
           /\ transaction # None /\ transaction.request \in MEM!DataMemoryRequest
           /\ response' = MEM!response_to(transaction.request)
           /\ memory' = MEM!written(transaction.request)
      /\ response' = None => memory' = memory
  BY <1>1, <1>2, CycleOfMemory
<1>4. ASSUME response' # None
      PROVE  memory' = memory /\ ~response'.is_store
  <2>1. ~transaction.request.is_store
    BY <1>1, <1>3, <1>4, ServedIsLoad
  <2> QED
    BY <1>3, <1>4, <2>1, AnswerType DEF MEM!written, IInv, TypeOK
<1> QED
  BY <1>1, <1>3, <1>4

LEMMA FlushKeepsInvariant ==
  ASSUME IInv, Flush
  PROVE  IInv'
<1>1. /\ lsq_cur' = [slot \in LSQ!Slot |-> None] /\ lsq_head' = 0 /\ lsq_tail' = 0
      /\ lsq_count' = 0 /\ lsq_load_result' = None
  BY FlushOfTheTwo DEF LSQ!clear, LSQ!no_entries
<1>2. LsqCapacity \in Nat \ {0} /\ 0 \in LSQ!Slot
  BY MemorySystemAssumption DEF LSQ!Slot
<1>3. TypeOK'
  <2>1. lsq_cur' \in [LSQ!Slot -> Maybe(LSQ!LSQEntry)] /\ None \in Maybe(FUResult)
    BY <1>1 DEF Maybe
  <2>2. 0 \in 0 .. LsqCapacity
    BY <1>2
  <2>3. memory' \in Image
    BY FlushOfTheTwo DEF IInv, TypeOK
  <2>4. None \in Maybe(RobTag)
    BY DEF Maybe
  <2> QED
    BY <1>1, <1>2, <2>1, <2>2, <2>3, <2>4, FlushOfTheTwo DEF TypeOK
<1>4. QueueIsContiguous'
  <2>1. \A slot \in LSQ!Slot : distance(slot)' = slot /\ slot \in Nat
    BY <1>1, <1>2 DEF distance, LSQ!Slot
  <2> QED
    BY <1>1, <1>2, <2>1 DEF QueueIsContiguous
<1>5. /\ \A slot \in LSQ!Slot : lsq_cur'[slot] = None
      /\ LSQ!front' = None /\ ~asked'
  BY <1>1 DEF LSQ!front, LSQ!empty, asked
<1>6. EntriesAreAccesses' /\ RequestsAreFinal' /\ RequestsAreTimely'
  BY <1>5 DEF EntriesAreAccesses, RequestsAreFinal, RequestsAreTimely
<1>7. AuthorisedIsHead'
  BY FlushOfTheTwo DEF AuthorisedIsHead
<1>8. TransactionIsKnown'
  BY <1>5, FlushOfTheTwo, ServedIsLoad DEF TransactionIsKnown, Abandoned
<1>9. ResponseIsKnown'
  BY <1>5, FlushOfTheTwo DEF ResponseIsKnown, Abandoned
<1> QED
  BY <1>3, <1>4, <1>6, <1>7, <1>8, <1>9 DEF IInv

LEMMA InitialInvariant ==
  ASSUME Init
  PROVE  IInv
<1>1. /\ lsq_cur = [slot \in LSQ!Slot |-> None] /\ lsq_head = 0 /\ lsq_tail = 0
      /\ lsq_count = 0 /\ lsq_load_result = None
      /\ memory = [address \in 0 .. MemorySize - 1 |-> 0]
      /\ transaction = None /\ response = None /\ authorised = None /\ stopped = FALSE
  BY DEF Init, LSQ!Init, LSQ!no_entries, MEM!Init
<1>2. LsqCapacity \in Nat \ {0} /\ 0 \in LSQ!Slot /\ 0 \in Byte
  BY MemorySystemAssumption, Sizes DEF LSQ!Slot, Byte
<1>3. TypeOK
  <2>1. lsq_cur \in [LSQ!Slot -> Maybe(LSQ!LSQEntry)] /\ memory \in Image
    BY <1>1, <1>2 DEF Maybe, Image
  <2>2. 0 \in 0 .. LsqCapacity
    BY <1>2
  <2> QED
    BY <1>1, <1>2, <2>1, <2>2 DEF TypeOK, Maybe
<1>4. QueueIsContiguous
  <2>1. \A slot \in LSQ!Slot : distance(slot) = slot /\ slot \in Nat
    BY <1>1, <1>2 DEF distance, LSQ!Slot
  <2> QED
    BY <1>1, <1>2, <2>1 DEF QueueIsContiguous
<1>5. /\ \A slot \in LSQ!Slot : lsq_cur[slot] = None
      /\ LSQ!front = None /\ ~asked
  BY <1>1 DEF LSQ!front, LSQ!empty, asked
<1> QED
  BY <1>1, <1>3, <1>4, <1>5 DEF IInv, EntriesAreAccesses, RequestsAreFinal,
     RequestsAreTimely, AuthorisedIsHead, TransactionIsKnown, ResponseIsKnown

LEMMA CycleHasInputs ==
  ASSUME Cycle
  PROVE  /\ ~stopped
         /\ \E issue_entry, cdb, granted : CycleWith(issue_entry, cdb, granted)
<1>1. PICK granted \in IF lsq_load_result = None THEN {FALSE} ELSE BOOLEAN :
        \E issue_entry \in issuable(granted), cdb \in broadcasts(granted) :
          advance(issue_entry, cdb, granted, FALSE)
  BY DEF Cycle
<1>2. PICK issue_entry \in issuable(granted), cdb \in broadcasts(granted) :
        advance(issue_entry, cdb, granted, FALSE)
  BY <1>1
<1>3. CycleWith(issue_entry, cdb, granted)
  BY <1>2 DEF CycleWith, Inputs, Cycle
<1> QED
  BY <1>3 DEF Cycle

(* Behind every access that memory is serving, or has just answered, is    *)
(* the head of the queue, which has all it needs and room for the result,  *)
(* or the core's word that it may store; or a load that was flushed, whose *)
(* tag no instruction in the queue has, whenever the flush came            *)
(* (load_store_queue.cpp: make_plan, memory_unit.cpp: data port).          *)
THEOREM Invariance == Spec => []IInv
<1>1. Init => IInv
  BY InitialInvariant
<1>2. ASSUME IInv, [Next]_vars PROVE IInv'
  <2>1. CASE Cycle
    <3>1. PICK issue_entry, cdb, granted : CycleWith(issue_entry, cdb, granted)
      BY <2>1, CycleHasInputs
    <3> QED
      BY <1>2, <3>1, CycleKeepsInvariant
  <2>2. CASE Flush
    BY <1>2, <2>2, FlushKeepsInvariant
  <2>3. CASE UNCHANGED vars
    BY <1>2, <2>3 DEF vars, IInv, TypeOK, QueueIsContiguous, distance, EntriesAreAccesses,
       RequestsAreFinal, RequestsAreTimely, asked, LSQ!front, LSQ!empty, AuthorisedIsHead,
       TransactionIsKnown, ResponseIsKnown, Abandoned, MEM!response_to
  <2> QED
    BY <1>2, <2>1, <2>2, <2>3 DEF Next
<1> QED
  BY <1>1, <1>2, PTL DEF Spec

----------------------------------------------------------------------------
(* What the queue holds, as a sequence. *)

slot_at(first, k) == IF first + k >= LsqCapacity THEN first + k - LsqCapacity ELSE first + k

Queue(stored, first, length) ==
  /\ stored \in [LSQ!Slot -> Maybe(LSQ!LSQEntry)]
  /\ first \in LSQ!Slot /\ length \in 0 .. LsqCapacity
  /\ \A slot \in LSQ!Slot :
       stored[slot] # None <=> (IF slot >= first THEN slot - first
                                ELSE slot + LsqCapacity - first) < length

(* All but the first k. *)
Rest(stored, first, length, k) ==
  [i \in 1 .. length - k |-> access_of(stored[slot_at(first, i - 1 + k)])]

LEMMA RoundTheQueue ==
  ASSUME NEW i \in 0 .. 2 * LsqCapacity - 1
  PROVE  i % LsqCapacity = IF i >= LsqCapacity THEN i - LsqCapacity ELSE i
<1>1. LsqCapacity \in Nat /\ LsqCapacity > 0
  BY MemorySystemAssumption
<1>2. CASE i < LsqCapacity
  BY <1>1, <1>2
<1>3. CASE i >= LsqCapacity
  <2>1. i - LsqCapacity \in 0 .. LsqCapacity - 1
    BY <1>1, <1>3
  <2>2. i = LsqCapacity * 1 + (i - LsqCapacity)
    BY <1>1, <1>3
  <2>3. i \div LsqCapacity = 1
    BY <1>1, <2>1, <2>2
  <2> QED
    BY <1>1, <1>3, <2>1, <2>2, <2>3
<1> QED
  BY <1>1, <1>2, <1>3

LEMMA Positions ==
  ASSUME NEW stored, NEW first, NEW length, Queue(stored, first, length),
         NEW k \in 0 .. length - 1
  PROVE  /\ slot_at(first, k) \in LSQ!Slot /\ (first + k) % LsqCapacity = slot_at(first, k)
         /\ slot_at(first, k) = first <=> k = 0
         /\ stored[slot_at(first, k)] \in LSQ!LSQEntry
         /\ stored[slot_at(first, k)] # None
<1>1. /\ LsqCapacity \in Nat /\ LsqCapacity > 0
      /\ first \in Nat /\ first < LsqCapacity
      /\ k \in Nat /\ k < length /\ length \in Nat /\ length <= LsqCapacity
  BY MemorySystemAssumption DEF Queue, LSQ!Slot
<1>2. /\ slot_at(first, k) \in 0 .. LsqCapacity - 1
      /\ slot_at(first, k) = first <=> k = 0
      /\ (IF slot_at(first, k) >= first THEN slot_at(first, k) - first
          ELSE slot_at(first, k) + LsqCapacity - first) = k
  BY <1>1 DEF slot_at
<1>3. first + k \in 0 .. 2 * LsqCapacity - 1
  BY <1>1
<1>4. (first + k) % LsqCapacity = slot_at(first, k)
  <2> DEFINE sum == first + k
  <2>1. sum % LsqCapacity = IF sum >= LsqCapacity THEN sum - LsqCapacity ELSE sum
    <3>1. sum \in 0 .. 2 * LsqCapacity - 1
      BY <1>3
    <3> HIDE DEF sum
    <3> QED
      BY <3>1, RoundTheQueue
  <2> QED
    BY <1>1, <2>1 DEF slot_at
<1> HIDE DEF slot_at
<1>5. stored[slot_at(first, k)] # None
  BY <1>1, <1>2 DEF Queue, LSQ!Slot
<1> QED
  BY <1>2, <1>4, <1>5 DEF Queue, LSQ!Slot, Maybe

LEMMA AccessType ==
  ASSUME NEW entry \in LSQ!LSQEntry
  PROVE  /\ access_of(entry) \in Promise!Access
         /\ access_of(entry).tag = entry.destination /\ access_of(entry).op = entry.op
         /\ access_of(entry).address = IF entry.address_ready THEN entry.address ELSE None
         /\ access_of(entry).value = IF is_store(entry.op) /\ entry.store_data.ready
                                     THEN entry.store_data.value ELSE None
<1>1. entry.address \in Word /\ entry.store_data.value \in Word
  BY SameRecords DEF Operand
<1> QED
  BY <1>1, SameRecords DEF access_of, Maybe

LEMMA RestType ==
  ASSUME NEW stored, NEW first, NEW length, Queue(stored, first, length),
         NEW k \in 0 .. 1, k <= length
  PROVE  /\ Rest(stored, first, length, k) \in Seq(Promise!Access)
         /\ Len(Rest(stored, first, length, k)) = length - k
         /\ DOMAIN Rest(stored, first, length, k) = 1 .. length - k
<1>1. LsqCapacity \in Nat /\ length \in Nat /\ length - k \in Nat /\ first \in Nat
  BY MemorySystemAssumption DEF Queue, LSQ!Slot
<1>2. \A i \in 1 .. length - k : i - 1 + k \in 0 .. length - 1
  BY <1>1
<1>3. ASSUME NEW i \in 1 .. length - k
      PROVE  access_of(stored[slot_at(first, i - 1 + k)]) \in Promise!Access
  BY <1>2, Positions, AccessType
<1>4. Rest(stored, first, length, k) \in [1 .. length - k -> Promise!Access]
  BY <1>3 DEF Rest
<1>6. Rest(stored, first, length, k) \in Seq(Promise!Access)
  BY <1>1, <1>4
<1>7. DOMAIN Rest(stored, first, length, k) = 1 .. length - k
  BY DEF Rest
<1>8. Len(Rest(stored, first, length, k)) = length - k
  BY <1>1, <1>4
<1> QED
  BY <1>6, <1>7, <1>8

LEMMA RestOfRest ==
  ASSUME NEW stored, NEW first, NEW length, Queue(stored, first, length), length # 0
  PROVE  /\ Rest(stored, first, length, 0) # <<>>
         /\ Head(Rest(stored, first, length, 0)) = access_of(stored[first])
         /\ Tail(Rest(stored, first, length, 0)) = Rest(stored, first, length, 1)
<1> DEFINE all == Rest(stored, first, length, 0)
           but_one == Rest(stored, first, length, 1)
<1>1. length \in Nat \ {0} /\ 1 <= length /\ 0 <= length
  BY MemorySystemAssumption DEF Queue
<1>2. /\ all \in Seq(Promise!Access) /\ Len(all) = length
      /\ but_one \in Seq(Promise!Access) /\ Len(but_one) = length - 1
  BY <1>1, RestType
<1>3. /\ \A i \in 1 .. length : all[i] = access_of(stored[slot_at(first, i - 1)])
      /\ \A i \in 1 .. length - 1 : but_one[i] = access_of(stored[slot_at(first, i)])
  <2>1. \A i \in 1 .. length : i \in 1 .. length - 0 /\ i - 1 + 0 = i - 1
    BY <1>1
  <2>2. \A i \in 1 .. length - 1 : i - 1 + 1 = i
    BY <1>1
  <2> QED
    BY <2>1, <2>2 DEF Rest
<1>4. slot_at(first, 0) = first
  BY MemorySystemAssumption DEF slot_at, Queue, LSQ!Slot
<1> HIDE DEF all, but_one
<1>5. all # <<>> /\ Head(all) = all[1] /\ all[1] = access_of(stored[first])
  BY <1>1, <1>2, <1>3, <1>4
<1>6. Tail(all) \in Seq(Promise!Access) /\ Len(Tail(all)) = length - 1
  BY <1>1, <1>2, <1>5
<1>7. \A i \in 1 .. length - 1 : Tail(all)[i] = but_one[i]
  <2>1. ASSUME NEW i \in 1 .. length - 1
        PROVE  Tail(all)[i] = all[i + 1] /\ i + 1 \in 1 .. length /\ (i + 1) - 1 = i
    BY <1>1, <1>2, <1>5
  <2> QED
    BY <1>3, <2>1
<1>8. Tail(all) = but_one
  BY <1>2, <1>6, <1>7, SeqEqual
<1> QED
  BY <1>5, <1>8 DEF all, but_one

LEMMA QueueAndAccesses ==
  /\ TypeOK /\ QueueIsContiguous => Queue(lsq_cur, lsq_head, lsq_count)
  /\ (TypeOK /\ QueueIsContiguous)' => Queue(lsq_cur, lsq_head, lsq_count)'
<1>1. TypeOK /\ QueueIsContiguous => Queue(lsq_cur, lsq_head, lsq_count)
  BY DEF TypeOK, QueueIsContiguous, Queue, distance
<1>2. (TypeOK /\ QueueIsContiguous)' => Queue(lsq_cur, lsq_head, lsq_count)'
  BY DEF TypeOK, QueueIsContiguous, Queue, distance
<1> QED
  BY <1>1, <1>2

LEMMA WrittenHead ==
  IInv => /\ done \in 0 .. 1 /\ done <= lsq_count
          /\ accesses = Rest(lsq_cur, lsq_head, lsq_count, done)
          /\ head_written <=> done = 1
          /\ LSQ!front = None <=> lsq_count = 0
<1> SUFFICES ASSUME IInv
             PROVE  /\ done \in 0 .. 1 /\ done <= lsq_count
                    /\ accesses = Rest(lsq_cur, lsq_head, lsq_count, done)
                    /\ head_written <=> done = 1
                    /\ LSQ!front = None <=> lsq_count = 0
  OBVIOUS
<1>1. head_written => LSQ!front # None
  BY DEF head_written, LSQ!matching_response
<1>2. /\ LSQ!front # None <=> lsq_count # 0
      /\ lsq_count \in Nat
  BY HeadOfTheQueue, MemorySystemAssumption DEF IInv, TypeOK
<1>3. done \in 0 .. 1 /\ done <= lsq_count /\ (head_written <=> done = 1)
  BY <1>1, <1>2 DEF done
<1>4. Queue(lsq_cur, lsq_head, lsq_count)
  BY QueueAndAccesses DEF IInv
<1>5. accesses = Rest(lsq_cur, lsq_head, lsq_count, done)
  <2>1. ASSUME NEW i \in 1 .. lsq_count - done
        PROVE  slot_at(lsq_head, i - 1 + done) = (lsq_head + i - 1 + done) % LsqCapacity
    <3> DEFINE j == i - 1 + done
    <3>1. j \in 0 .. lsq_count - 1 /\ lsq_head + i - 1 + done = lsq_head + j
      BY <1>2, <1>3, HeadOfTheQueue DEF IInv, LSQ!Slot
    <3>2. slot_at(lsq_head, j) = (lsq_head + j) % LsqCapacity
      <4> HIDE DEF j
      <4> QED
        BY <1>4, <3>1, Positions
    <3> QED
      BY <3>1, <3>2
  <2> QED
    BY <2>1 DEF accesses, Rest
<1> QED
  BY <1>2, <1>3, <1>5

LEMMA WrittenHeadAfter ==
  ASSUME IInv'
  PROVE  /\ done' \in 0 .. 1 /\ done' <= lsq_count'
         /\ accesses' = Rest(lsq_cur', lsq_head', lsq_count', done')
         /\ head_written' <=> done' = 1
         /\ LSQ!front' = None <=> lsq_count' = 0
<1>1. (/\ done \in 0 .. 1 /\ done <= lsq_count
       /\ accesses = Rest(lsq_cur, lsq_head, lsq_count, done)
       /\ head_written <=> done = 1
       /\ LSQ!front = None <=> lsq_count = 0)'
  BY WrittenHead, PTL
<1> QED
  BY <1>1 DEF Rest

(* How many accesses a cycle finishes, counted from the first in the queue.*)
Finishes(k) ==
  /\ k \in 0 .. 1 /\ k <= lsq_count
  /\ removed => k = 1 /\ done' = 0
  /\ ~removed => k = done'

(* The accesses that stay are only learnt about, one may join behind them. *)
LEMMA CarriedOn ==
  ASSUME IInv, IInv', NEW issue_entry, NEW cdb, NEW granted,
         CycleWith(issue_entry, cdb, granted),
         NEW k, Finishes(k)
  PROVE  Promise!carried_on(Rest(lsq_cur, lsq_head, lsq_count, k))
<1> DEFINE before == Rest(lsq_cur, lsq_head, lsq_count, k)
           after == Rest(lsq_cur', lsq_head', lsq_count', done')
           left == lsq_count - k
           joined == IF issue_entry = None THEN 0 ELSE 1
           gone == IF removed THEN 1 ELSE 0
<1>1. Queue(lsq_cur, lsq_head, lsq_count) /\ Queue(lsq_cur', lsq_head', lsq_count')
  BY QueueAndAccesses DEF IInv, Queue
<1>2. done' \in 0 .. 1 /\ done' <= lsq_count'
  BY WrittenHeadAfter
<1>12. accesses' = after
  BY WrittenHeadAfter
<1>3. /\ lsq_count' = (lsq_count + joined) - gone
      /\ lsq_head' = IF ~removed THEN lsq_head
                     ELSE IF lsq_head + 1 = LsqCapacity THEN 0 ELSE lsq_head + 1
  BY CycleOfTheQueue DEF IInv, CycleWith
<1>4. /\ LsqCapacity \in Nat /\ LsqCapacity > 0 /\ lsq_count \in Nat
      /\ lsq_head \in Nat /\ lsq_head < LsqCapacity
      /\ lsq_count <= LsqCapacity
  BY <1>1, MemorySystemAssumption DEF Queue, LSQ!Slot
<1>5. /\ joined \in 0 .. 1 /\ gone \in 0 .. 1
      /\ issue_entry = None <=> joined = 0
      /\ removed <=> gone = 1
      /\ k = done' + gone /\ left = lsq_count - k
      /\ left \in Nat /\ lsq_count' - done' = left + joined
  <2>1. gone \in 0 .. 1 /\ k = done' + gone
    <3>1. CASE removed
      <4>1. gone = 1 /\ done' = 0 /\ k = 1
        BY <3>1 DEF Finishes
      <4> HIDE DEF gone
      <4> QED
        BY <4>1
    <3>2. CASE ~removed
      <4>1. gone = 0 /\ k = done'
        BY <3>2 DEF Finishes
      <4> HIDE DEF gone
      <4>2. done' \in 0 .. 1
        BY <1>2
      <4>3. \A d \in 0 .. 1 : d = d + 0 /\ 0 \in 0 .. 1
        OBVIOUS
      <4> QED
        BY <4>1, <4>2, <4>3, Zenon
    <3> QED
      BY <3>1, <3>2
  <2>2. (issue_entry = None <=> joined = 0) /\ (removed <=> gone = 1) /\ joined \in 0 .. 1
    OBVIOUS
  <2>3. lsq_count' = (lsq_count + joined) - gone /\ left = lsq_count - k
    BY <1>3
  <2> HIDE DEF joined, gone, left
  <2>4. left \in Nat
    BY <1>4, <2>3 DEF Finishes
  <2>5. done' \in 0 .. 1
    BY <1>2
  <2>6. lsq_count' - done' = left + joined
    BY <1>4, <2>5, <2>1, <2>2, <2>3
  <2> QED
    BY <2>1, <2>2, <2>3, <2>4, <2>6
<1> HIDE DEF joined, gone, left
<1>6. /\ DOMAIN before = 1 .. left /\ Len(before) = left
      /\ \A i \in 1 .. left : before[i] = access_of(lsq_cur[slot_at(lsq_head, i - 1 + k)])
      /\ \A i \in 1 .. left : i - 1 + k \in 0 .. lsq_count - 1
  <2>1. /\ DOMAIN before = 1 .. lsq_count - k /\ Len(before) = lsq_count - k
        /\ \A i \in 1 .. lsq_count - k : i - 1 + k \in 0 .. lsq_count - 1
    <3>1. k \in 0 .. 1 /\ k <= lsq_count
      BY DEF Finishes
    <3>2. Len(before) = lsq_count - k
      <4>1. Queue(lsq_cur, lsq_head, lsq_count)
        BY <1>1
      <4> QED
        BY <3>1, <4>1, RestType
    <3>4. DOMAIN before = 1 .. lsq_count - k
      BY DEF Rest
    <3>3. \A i \in 1 .. lsq_count - k : i - 1 + k \in 0 .. lsq_count - 1
      BY <1>4, <3>1
    <3> QED
      BY <3>2, <3>3, <3>4
  <2> QED
    BY <1>5, <2>1 DEF Rest
<1>7. /\ Len(after) = left + joined
      /\ \A i \in 1 .. left + joined :
           /\ after[i] = access_of(lsq_cur'[slot_at(lsq_head', i - 1 + done')])
           /\ i - 1 + done' \in 0 .. lsq_count' - 1
  <2>1. Len(after) = lsq_count' - done'
    BY <1>1, <1>2, RestType
  <2>2. \A i \in 1 .. lsq_count' - done' : i - 1 + done' \in 0 .. lsq_count' - 1
    <3>1. lsq_count' \in Nat
      BY <1>1, <1>4 DEF Queue
    <3>2. \A n \in Nat, d \in 0 .. 1 : \A i \in 1 .. n - d : i - 1 + d \in 0 .. n - 1
      OBVIOUS
    <3> QED
      BY <1>2, <3>1, <3>2, Zenon
  <2> QED
    BY <1>5, <2>1, <2>2 DEF Rest
<1>8. ASSUME NEW i \in 1 .. left + joined
      PROVE  slot_at(lsq_head', i - 1 + done') = slot_at(lsq_head, i - 1 + k)
  <2>1. i - 1 + done' \in Nat /\ i - 1 + k = (i - 1 + done') + gone
        /\ i - 1 + done' < lsq_count' /\ lsq_count' <= LsqCapacity
        /\ lsq_count' \in Nat
    <3>1. i - 1 + done' \in 0 .. lsq_count' - 1 /\ i \in Nat
      BY <1>5, <1>7
    <3>2. lsq_count' \in 0 .. LsqCapacity
      BY <1>1 DEF Queue
    <3>3. done' \in Nat /\ gone \in Nat /\ k = done' + gone
      BY <1>2, <1>5
    <3>4. i - 1 + done' \in Nat /\ i - 1 + done' < lsq_count' /\ lsq_count' \in Nat
          /\ lsq_count' <= LsqCapacity
      BY <1>4, <3>1, <3>2
    <3>5. i - 1 + k = (i - 1 + done') + gone
      BY <3>1, <3>3
    <3> QED
      BY <3>4, <3>5
  <2>2. i - 1 + k <= LsqCapacity
    BY <1>4, <1>5, <2>1
  <2> QED
    <3>1. CASE removed
      <4>1. gone = 1 /\ lsq_head' = IF lsq_head + 1 = LsqCapacity THEN 0 ELSE lsq_head + 1
        BY <1>3, <1>5, <3>1
      <4> QED
        BY <1>4, <2>1, <2>2, <4>1 DEF slot_at
    <3>2. CASE ~removed
      <4>1. gone = 0 /\ lsq_head' = lsq_head
        BY <1>3, <1>5, <3>2
      <4> QED
        BY <1>4, <2>1, <2>2, <4>1 DEF slot_at
    <3> QED
      BY <3>1, <3>2
<1>9. ASSUME NEW i \in 1 .. left
      PROVE  Promise!learnt(before[i], after[i])
  <2> DEFINE slot == slot_at(lsq_head, i - 1 + k)
  <2>1. /\ slot \in LSQ!Slot /\ lsq_cur[slot] \in LSQ!LSQEntry /\ lsq_cur[slot] # None
        /\ slot = lsq_head <=> i - 1 + k = 0
    BY <1>1, <1>6, Positions
  <2>2. stays(slot)
    <3>1. removed => i - 1 + k # 0
      <4>1. removed => k = 1
        BY DEF Finishes
      <4> QED
        BY <1>5, <4>1
    <3> QED
      BY <2>1, <3>1 DEF stays
  <2>3. before[i] = access_of(lsq_cur[slot]) /\ after[i] = access_of(lsq_cur'[slot])
    <3>1. i \in 1 .. left + joined
      BY <1>5
    <3> QED
      BY <1>6, <1>7, <1>8, <3>1
  <2> HIDE DEF slot, before, after
  <2>4. Continues(lsq_cur'[slot], lsq_cur[slot], cdb, slot = lsq_head /\ asked_for(granted) # None)
    BY <2>1, <2>2, CycleOfTheQueue DEF IInv, CycleWith
  <2>5. /\ lsq_cur'[slot] \in LSQ!LSQEntry
        /\ lsq_cur'[slot].op = lsq_cur[slot].op
        /\ lsq_cur'[slot].destination = lsq_cur[slot].destination
        /\ lsq_cur[slot].address_ready =>
             lsq_cur'[slot].address_ready /\ lsq_cur'[slot].address = lsq_cur[slot].address
        /\ lsq_cur[slot].store_data.ready => lsq_cur'[slot].store_data = lsq_cur[slot].store_data
    BY <2>4 DEF Continues, LSQ!wake_operand
  <2> QED
    BY <2>1, <2>3, <2>5, AccessType DEF Promise!learnt
<1>10. ASSUME issue_entry # None
       PROVE  after[left + 1].tag \notin Promise!tags(before)
  <2>1. left + 1 \in 1 .. left + joined /\ (left + 1) - 1 + k = lsq_count
    BY <1>4, <1>5, <1>10
  <2>2. lsq_count < LsqCapacity
    BY <1>10, InputTypes, HeadOfTheQueue DEF IInv, CycleWith
  <2>3. slot_at(lsq_head, lsq_count) = lsq_tail
    BY DEF slot_at, IInv, QueueIsContiguous
  <2>4. after[left + 1] = access_of(lsq_cur'[lsq_tail])
    BY <1>7, <1>8, <2>1, <2>3
  <2>5. /\ issue_entry \in LSQ!LSQEntry /\ issue_entry.destination \notin tags_in_use
    BY <1>10, InputTypes DEF IInv, CycleWith, Maybe
  <2>6. lsq_cur'[lsq_tail] = LSQ!addressed(issue_entry)
    BY <1>10, CycleOfTheQueue DEF IInv, CycleWith
  <2>7. after[left + 1].tag = issue_entry.destination
    BY <2>4, <2>5, <2>6, EntryAddressed, AccessType
  <2>8. ASSUME NEW i \in 1 .. left
        PROVE  before[i].tag \in tags_in_use
    <3> DEFINE slot == slot_at(lsq_head, i - 1 + k)
    <3>1. slot \in LSQ!Slot /\ lsq_cur[slot] \in LSQ!LSQEntry /\ lsq_cur[slot] # None
      BY <1>1, <1>6, Positions
    <3>2. before[i].tag = lsq_cur[slot].destination
      BY <1>6, <3>1, AccessType
    <3> HIDE DEF slot
    <3> QED
      BY <3>1, <3>2 DEF tags_in_use, queued_tags, queued
  <2> HIDE DEF before, after
  <2> QED
    BY <1>6, <2>5, <2>7, <2>8 DEF Promise!tags
<1> HIDE DEF before, after
<1>11. Promise!carried_on(before)
  <2>1. Len(accesses') \in {Len(before), Len(before) + 1}
    BY <1>12, <1>5, <1>6, <1>7
  <2>2. \A i \in DOMAIN before : Promise!learnt(before[i], accesses'[i])
    BY <1>12, <1>6, <1>9
  <2>3. ASSUME Len(accesses') > Len(before)
        PROVE  accesses'[Len(accesses')].tag \notin Promise!tags(before)
    <3>1. issue_entry # None /\ Len(accesses') = left + 1
      BY <1>12, <1>5, <1>6, <1>7, <2>3
    <3> QED
      BY <1>12, <1>10, <3>1
  <2> QED
    BY <2>1, <2>2, <2>3 DEF Promise!carried_on
<1> QED
  BY <1>11 DEF before

----------------------------------------------------------------------------
(* Every step of the two components is one of InOrderMemory. *)

(* The oldest access is that of the head of the queue ...                  *)
LEMMA Oldest ==
  ASSUME IInv, done = 0, LSQ!front # None
  PROVE  /\ accesses # <<>> /\ Promise!oldest = access_of(LSQ!front)
         /\ Tail(accesses) = Rest(lsq_cur, lsq_head, lsq_count, 1)
         /\ lsq_count # 0 /\ lsq_count \in Nat
<1>1. accesses = Rest(lsq_cur, lsq_head, lsq_count, 0)
  BY WrittenHead
<1>2. /\ lsq_count # 0 /\ LSQ!front = lsq_cur[lsq_head]
      /\ Queue(lsq_cur, lsq_head, lsq_count) /\ lsq_count \in Nat
  BY HeadOfTheQueue, QueueAndAccesses, MemorySystemAssumption DEF IInv, TypeOK
<1> QED
  BY <1>1, <1>2, RestOfRest DEF Promise!oldest

(* ... and known when the head has asked.                                  *)
LEMMA AskedHead ==
  ASSUME IInv, asked
  PROVE  /\ LSQ!front # None /\ LSQ!front \in LSQ!LSQEntry
         /\ LSQ!front.op \in LoadOps \cup StoreOps
         /\ access_of(LSQ!front).tag = LSQ!front.destination
         /\ access_of(LSQ!front).op = LSQ!front.op
         /\ access_of(LSQ!front).address = LSQ!front.address
         /\ access_of(LSQ!front).address # None
         /\ is_store(LSQ!front.op) =>
              /\ access_of(LSQ!front).value = LSQ!front.store_data.value
              /\ access_of(LSQ!front).value # None
              /\ authorised = LSQ!front.destination
<1>1. /\ LSQ!front # None /\ LSQ!front \in LSQ!LSQEntry
      /\ LSQ!front = lsq_cur[lsq_head] /\ lsq_head \in LSQ!Slot
  BY HeadOfTheQueue DEF asked, IInv
<1>2. LSQ!front.op \in LoadOps \cup StoreOps
  BY <1>1 DEF IInv, EntriesAreAccesses
<1>3. LSQ!front.address_ready /\ LSQ!front.store_data.ready
  BY <1>1 DEF asked, IInv, RequestsAreFinal
<1>4. LSQ!front.address \in Word /\ LSQ!front.store_data.value \in Word
  BY <1>1, SameRecords DEF Operand
<1>5. LSQ!front.address # None /\ LSQ!front.store_data.value # None
  BY <1>4, NothingAssumption
<1>6. is_store(LSQ!front.op) => authorised = LSQ!front.destination
  BY DEF IInv, RequestsAreTimely, is_load, is_store, LoadOps, StoreOps
<1> QED
  BY <1>1, <1>2, <1>3, <1>5, <1>6, AccessType

(* What a cycle does with the answer it starts with, and the one it ends   *)
(* with.                                                                   *)
LEMMA AnswersInCycle ==
  ASSUME IInv, IInv', NEW issue_entry, NEW cdb, NEW granted,
         CycleWith(issue_entry, cdb, granted)
  PROVE  /\ response # None => response' = None /\ memory' = memory
         /\ stopped' = LSQ!memory_error(response, FALSE)
         /\ ~(removed /\ is_load(LSQ!front.op)) =>
              lsq_load_result' = lsq_load_result \/ lsq_load_result' = None
         /\ done' = 1 => response' # None /\ response = None /\ ~removed
         /\ done = 1 => removed /\ is_store(LSQ!front.op) /\ ~is_load(LSQ!front.op)
<1>1. response # None => response' = None /\ memory' = memory
  BY MemoryInCycle DEF IInv, ResponseIsKnown
<1>2. stopped' = LSQ!memory_error(response, FALSE)
  BY DEF CycleWith, advance
<1>3. ASSUME ~(removed /\ is_load(LSQ!front.op))
      PROVE  lsq_load_result' = lsq_load_result \/ lsq_load_result' = None
  <2>1. loaded = None
    BY <1>3, SameOperations DEF loaded, LSQ!completed_load_result, removed
  <2>2. lsq_load_result' = IF loaded # None THEN loaded
                           ELSE IF granted THEN None ELSE lsq_load_result
    BY DEF CycleWith, advance, LSQ!apply, LSQ!advance, loaded
  <2> QED
    BY <2>1, <2>2
<1>4. ASSUME done' = 1
      PROVE  response' # None /\ response = None /\ ~removed
  <2>1. response' # None
    BY <1>4, WrittenHeadAfter DEF head_written, LSQ!matching_response
  <2>2. response = None
    BY <1>1, <2>1
  <2> QED
    BY <2>1, <2>2 DEF removed, LSQ!remove_head, LSQ!matching_response
<1>5. ASSUME done = 1
      PROVE  removed /\ is_store(LSQ!front.op) /\ ~is_load(LSQ!front.op)
  <2>1. /\ LSQ!matching_response(response) /\ response.success /\ response.is_store
    BY <1>5, WrittenHead DEF head_written
  <2>2. is_store(LSQ!front.op)
    BY <2>1, SameOperations DEF LSQ!matching_response
  <2> QED
    BY <2>1, <2>2 DEF removed, LSQ!remove_head, is_load, is_store, LoadOps, StoreOps
<1> QED
  BY <1>1, <1>2, <1>3, <1>4, <1>5

LEMMA LoadIsLoad ==
  ASSUME IInv, IInv', ~stopped, NEW issue_entry, NEW cdb, NEW granted,
         CycleWith(issue_entry, cdb, granted), removed, is_load(LSQ!front.op)
  PROVE  Promise!Load
<1> DEFINE entry == LSQ!front
           width == LSQ!memory_width(entry.op)
           value == MEM!read(memory, entry.address, width)
<1>1. asked /\ response # None
  BY Answered DEF removed, LSQ!remove_head
<1>2. done = 0 /\ done' = 0
  <2>1. done # 1 /\ done' # 1
    BY AnswersInCycle
  <2> QED
    BY <2>1, WrittenHead, WrittenHeadAfter
<1>3. /\ accesses # <<>> /\ Promise!oldest = access_of(entry)
      /\ Tail(accesses) = Rest(lsq_cur, lsq_head, lsq_count, 1)
      /\ 1 <= lsq_count
  BY <1>1, <1>2, AskedHead, Oldest
<1>4. Promise!carried_on(Tail(accesses))
  <2>1. Finishes(1)
    BY <1>2, <1>3 DEF Finishes
  <2> QED
    BY <1>3, <2>1, CarriedOn
<1>5. /\ Promise!oldest.tag = entry.destination /\ Promise!oldest.op = entry.op
      /\ Promise!oldest.address = entry.address /\ Promise!oldest.address # None
      /\ Promise!width(Promise!oldest.op) = width
  BY <1>1, <1>3, AskedHead, SameOperations
<1>6. /\ MEM!in_bounds(entry.address, width)
      /\ value \in 0 .. Limit(width) - 1
      /\ loaded \in FUResult /\ loaded.tag = entry.destination
      /\ loaded.result = LSQ!extend_load_result(entry.op, value)
  BY LoadedValue
<1>7. lsq_load_result' = loaded /\ loaded # None
  <2>1. loaded # None
    BY <1>6, NothingAssumption
  <2> QED
    BY <2>1 DEF CycleWith, advance, LSQ!apply, LSQ!advance, loaded
<1>8. Promise!reaches_memory
  BY <1>5, <1>6, SameMemory DEF Promise!reaches_memory
<1>9. loaded.result = Promise!loaded_value(Promise!oldest)
  <2>1. LSQ!extend_load_result(entry.op, value) =
          IF entry.op \in {"LB", "LH"}
          THEN Promise!sign_extend(value, Promise!width(entry.op) * ByteBits) ELSE value
    BY <1>6, Loading
  <2>2. Promise!read(memory, entry.address, width) = value
    BY SameMemory
  <2> HIDE DEF value, width
  <2> QED
    BY <1>5, <1>6, <2>1, <2>2 DEF Promise!loaded_value
<1>10. memory' = memory /\ stopped' = stopped
  <2>1. ~LSQ!memory_error(response, FALSE)
    BY DEF LSQ!memory_error, removed, LSQ!remove_head
  <2> QED
    BY <1>1, <2>1, AnswersInCycle DEF IInv, TypeOK, LSQ!memory_error
<1>11. is_load(Promise!oldest.op) /\ Promise!is_load(Promise!oldest.op)
  BY <1>5, SameOperations
<1> QED
  BY <1>3, <1>4, <1>5, <1>6, <1>7, <1>8, <1>9, <1>10, <1>11 DEF Promise!Load

(* The write that a cycle ends with: the store at the head of the queue    *)
(* was sent, and the answer is for it.                                     *)
LEMMA ServedStore ==
  ASSUME IInv, IInv', NEW issue_entry, NEW cdb, NEW granted,
         CycleWith(issue_entry, cdb, granted),
         response' # None, transaction.request.is_store
  PROVE  LET entry == LSQ!front
             width == LSQ!memory_width(entry.op)
         IN  /\ asked /\ is_store(entry.op) /\ ~removed /\ done = 0
             /\ LSQ!matching_response(response)' /\ response'.is_store
             /\ response'.success = MEM!in_bounds(entry.address, width)
             /\ response'.success => done' = 1
             /\ memory' = IF MEM!in_bounds(entry.address, width)
                          THEN MEM!write(memory, entry.address, width, entry.store_data.value)
                          ELSE memory
<1> DEFINE entry == LSQ!front
           width == LSQ!memory_width(entry.op)
           request == LSQ!make_memory_request(entry)
<1>1. /\ transaction # None /\ transaction.request \in MEM!DataMemoryRequest
      /\ response' = MEM!response_to(transaction.request)
      /\ memory' = MEM!written(transaction.request)
  BY MemoryInCycle
<1>2. asked /\ transaction.request = request
  BY <1>1 DEF IInv, TransactionIsKnown
<1>3. /\ request.is_store = is_store(entry.op) /\ request.address = entry.address
      /\ request.width = width /\ request.tag = entry.destination
      /\ is_store(entry.op) => request.value = entry.store_data.value
  BY SameOperations DEF LSQ!make_memory_request
<1>4. is_store(entry.op)
  BY <1>2, <1>3
<1>5. response = None /\ ~removed
  <2>1. response = None
    BY <1>1 DEF IInv, ResponseIsKnown
  <2> QED
    BY <2>1 DEF removed, LSQ!remove_head, LSQ!matching_response
<1>6. done = 0
  <2>1. done # 1
    BY <1>5, AnswersInCycle
  <2> QED
    BY <2>1, WrittenHead
<1>7. /\ response'.tag = entry.destination /\ response'.is_store
      /\ response'.success = MEM!in_bounds(entry.address, width)
  BY <1>1, <1>2, <1>3, <1>4, AnswerType DEF IInv, TypeOK
<1>8. LSQ!matching_response(response)'
  <2>1. LSQ!front # None
    BY <1>2 DEF asked
  <2>2. LSQ!front' # None /\ Continues(LSQ!front', LSQ!front, cdb, asked_for(granted) # None)
    BY <1>5, <2>1, HeadContinues DEF CycleWith
  <2>3. LSQ!front'.destination = response'.tag /\ LSQ!front'.op = LSQ!front.op
    BY <1>7, <2>2 DEF Continues
  <2>4. LSQ!is_store(LSQ!front'.op) = response'.is_store
    <3>1. response'.is_store \in BOOLEAN
      BY <1>1, AnswerType, SameRecords DEF IInv, TypeOK
    <3> QED
      BY <1>4, <1>7, <2>3, <3>1, SameOperations
  <2> QED
    BY <2>2, <2>3, <2>4 DEF LSQ!matching_response
<1>9. response'.success => done' = 1
  BY <1>7, <1>8, WrittenHeadAfter DEF head_written
<1>10. memory' = IF MEM!in_bounds(entry.address, width)
                 THEN MEM!write(memory, entry.address, width, entry.store_data.value)
                 ELSE memory
  BY <1>1, <1>2, <1>3, <1>4 DEF MEM!written
<1> QED
  BY <1>2, <1>4, <1>5, <1>6, <1>7, <1>8, <1>9, <1>10

LEMMA StoreIsStore ==
  ASSUME IInv, IInv', ~stopped, NEW issue_entry, NEW cdb, NEW granted,
         CycleWith(issue_entry, cdb, granted), done' = 1
  PROVE  Promise!Store
<1> DEFINE entry == LSQ!front
           width == LSQ!memory_width(entry.op)
<1>1. response' # None /\ response = None /\ ~removed
  BY AnswersInCycle
<1>2. response'.is_store /\ response'.success
  BY WrittenHeadAfter DEF head_written
<1>3. transaction.request.is_store
  BY <1>1, <1>2, MemoryInCycle, AnswerType DEF IInv, TypeOK
<1>4. /\ asked /\ is_store(entry.op) /\ done = 0
      /\ MEM!in_bounds(entry.address, width)
      /\ memory' = MEM!write(memory, entry.address, width, entry.store_data.value)
  BY <1>1, <1>2, <1>3, ServedStore
<1>5. /\ accesses # <<>> /\ Promise!oldest = access_of(entry)
      /\ Tail(accesses) = Rest(lsq_cur, lsq_head, lsq_count, 1)
      /\ 1 <= lsq_count
  BY <1>4, AskedHead, Oldest
<1>6. Promise!carried_on(Tail(accesses))
  <2>1. Finishes(1)
    BY <1>1, <1>5 DEF Finishes
  <2> QED
    BY <1>5, <2>1, CarriedOn
<1>7. /\ Promise!oldest.tag = entry.destination /\ Promise!oldest.op = entry.op
      /\ Promise!oldest.address = entry.address /\ Promise!oldest.address # None
      /\ Promise!oldest.value = entry.store_data.value /\ Promise!oldest.value # None
      /\ authorised = entry.destination
      /\ Promise!width(Promise!oldest.op) = width
  BY <1>4, <1>5, AskedHead, SameOperations
<1>8. Promise!reaches_memory
  BY <1>4, <1>7, SameMemory DEF Promise!reaches_memory
<1>9. memory' = Promise!write(memory, Promise!oldest.address,
                              Promise!width(Promise!oldest.op), Promise!oldest.value)
  <2>1. Promise!write(memory, entry.address, width, entry.store_data.value)
          = MEM!write(memory, entry.address, width, entry.store_data.value)
    BY SameMemory
  <2> HIDE DEF width, entry
  <2> QED
    BY <1>4, <1>7, <2>1
<1>10. /\ lsq_load_result' = lsq_load_result \/ lsq_load_result' = None
       /\ stopped' = stopped
  <2>1. ~LSQ!memory_error(response, FALSE)
    BY <1>1 DEF LSQ!memory_error, LSQ!matching_response
  <2> QED
    BY <1>1, <2>1, AnswersInCycle DEF IInv, TypeOK, LSQ!memory_error
<1>11. Promise!is_store(Promise!oldest.op)
  BY <1>4, <1>7, SameOperations
<1> QED
  BY <1>5, <1>6, <1>7, <1>8, <1>9, <1>10, <1>11 DEF Promise!Store

LEMMA FaultIsFault ==
  ASSUME IInv, IInv', ~stopped, NEW issue_entry, NEW cdb, NEW granted,
         CycleWith(issue_entry, cdb, granted), LSQ!memory_error(response, FALSE)
  PROVE  Promise!Fault
<1> DEFINE entry == LSQ!front
           width == LSQ!memory_width(entry.op)
           request == LSQ!make_memory_request(entry)
<1>1. LSQ!matching_response(response) /\ ~response.success
  BY DEF LSQ!memory_error
<1>2. asked /\ response # None /\ response = MEM!response_to(request) /\ entry # None
  BY <1>1, Answered
<1>3. ~removed
  BY <1>1 DEF removed, LSQ!remove_head
<1>4. request \in MEM!DataMemoryRequest
  BY <1>2, RequestType DEF IInv
<1>5. ~MEM!in_bounds(entry.address, width)
  <2>1. request.address = entry.address /\ request.width = width
    BY DEF LSQ!make_memory_request
  <2> QED
    BY <1>1, <1>2, <1>4, <2>1, AnswerType DEF IInv, TypeOK
<1>6. done = 0 /\ done' = 0
  <2>1. done # 1 /\ done' # 1
    BY <1>2, <1>3, AnswersInCycle
  <2> QED
    BY <2>1, WrittenHead, WrittenHeadAfter
<1>7. accesses # <<>> /\ Promise!oldest = access_of(entry)
  BY <1>2, <1>6, Oldest
<1>8. Promise!carried_on(accesses)
  <2>1. accesses = Rest(lsq_cur, lsq_head, lsq_count, 0) /\ 0 <= lsq_count
    BY <1>6, WrittenHead
  <2>2. Finishes(0)
    BY <1>3, <1>6, <2>1 DEF Finishes
  <2> QED
    BY <2>1, <2>2, CarriedOn
<1>9. /\ Promise!oldest.tag = entry.destination /\ Promise!oldest.op = entry.op
      /\ Promise!oldest.address = entry.address /\ Promise!oldest.address # None
      /\ is_store(entry.op) => authorised = entry.destination
      /\ Promise!width(Promise!oldest.op) = width
  BY <1>2, <1>7, AskedHead, SameOperations
<1>10. ~Promise!reaches_memory
  BY <1>5, <1>9, SameMemory DEF Promise!reaches_memory
<1>11. /\ lsq_load_result' = lsq_load_result \/ lsq_load_result' = None
       /\ stopped' = TRUE /\ memory' = memory
  BY <1>2, <1>3, AnswersInCycle DEF LSQ!memory_error
<1>12. Promise!is_store(Promise!oldest.op) => authorised = Promise!oldest.tag
  BY <1>9, SameOperations
<1> QED
  BY <1>7, <1>8, <1>9, <1>10, <1>11, <1>12 DEF Promise!Fault

(* Otherwise memory is as it was: either the store that has been written   *)
(* leaves the queue, or nothing does.                                      *)
LEMMA OtherwiseIsIdle ==
  ASSUME IInv, IInv', ~stopped, NEW issue_entry, NEW cdb, NEW granted,
         CycleWith(issue_entry, cdb, granted),
         ~(removed /\ is_load(LSQ!front.op)), done' # 1, ~LSQ!memory_error(response, FALSE)
  PROVE  Promise!Idle
<1>1. done' = 0
  BY WrittenHeadAfter
<1>2. removed => done = 1
  <2>1. ASSUME removed
        PROVE  head_written
    <3>1. LSQ!matching_response(response) /\ response.success
      BY <2>1 DEF removed, LSQ!remove_head
    <3>2. asked
      BY <3>1, Answered
    <3>3. is_store(LSQ!front.op)
      BY <2>1, <3>2, AskedHead DEF is_load, is_store
    <3> QED
      BY <3>1, <3>3, SameOperations DEF head_written, LSQ!matching_response
  <2> QED
    BY <2>1, WrittenHead
<1>3. ~removed => done = 0
  <2>1. ~removed => done # 1
    BY AnswersInCycle
  <2> QED
    BY <2>1, WrittenHead
<1>4. Promise!carried_on(accesses)
  <2>1. /\ accesses = Rest(lsq_cur, lsq_head, lsq_count, done)
        /\ done \in 0 .. 1 /\ done <= lsq_count
    BY WrittenHead
  <2>2. Finishes(done)
    BY <1>1, <1>2, <1>3, <2>1 DEF Finishes
  <2> QED
    BY <2>1, <2>2, CarriedOn
<1>5. memory' = memory
  <2>1. CASE response' = None
    BY <2>1, MemoryInCycle
  <2>2. CASE response' # None /\ ~transaction.request.is_store
    BY <2>2, MemoryInCycle DEF MEM!written
  <2>3. CASE response' # None /\ transaction.request.is_store
    BY <2>3, ServedStore
  <2> QED
    BY <2>1, <2>2, <2>3
<1>6. stopped' = stopped
  BY AnswersInCycle DEF IInv, TypeOK, LSQ!memory_error
<1>7. lsq_load_result' = lsq_load_result \/ lsq_load_result' = None
  BY AnswersInCycle
<1> QED
  BY <1>4, <1>5, <1>6, <1>7 DEF Promise!Idle

LEMMA FlushIsFlush ==
  ASSUME IInv, IInv', ~stopped, Flush
  PROVE  Promise!Flush
<1>1. lsq_count' = 0 /\ lsq_load_result' = None
  BY FlushOfTheTwo DEF LSQ!clear
<1>2. memory' = memory /\ stopped' = stopped
  BY FlushOfTheTwo DEF IInv, TypeOK
<1>3. accesses' = <<>>
  <2>1. done' = 0
    BY <1>1, WrittenHeadAfter
  <2>2. accesses' = [i \in 1 .. 0 - 0 |-> access_of(lsq_cur'[slot_at(lsq_head', i - 1 + 0)])]
    BY <1>1, <2>1, WrittenHeadAfter DEF Rest
  <2> QED
    BY <2>2
<1> QED
  BY <1>1, <1>2, <1>3 DEF Promise!Flush

(* The load/store queue and the memory unit implement InOrderMemory,       *)
(* whatever the core does: each access takes effect once, in program       *)
(* order, on its own answer, a store only while the core says so, and none *)
(* that was flushed (load_store_queue.cpp:194-198, "memory is accessed     *)
(* strictly in queue order").                                              *)
THEOREM MemoryIsInOrder == Spec => ImplementsInOrderMemory
<1>1. Init => Promise!Init
  <2> SUFFICES ASSUME Init
               PROVE  Promise!Init
    OBVIOUS
  <2>1. lsq_count = 0 /\ lsq_load_result = None /\ authorised = None /\ stopped = FALSE
    BY DEF Init, LSQ!Init
  <2>2. LSQ!front = None
    BY <2>1 DEF LSQ!front, LSQ!empty
  <2>3. done = 0
    BY <2>2 DEF done, head_written, LSQ!matching_response
  <2>4. accesses = <<>>
    BY <2>1, <2>3 DEF accesses
  <2> QED
    BY <2>1, <2>4 DEF Promise!Init
<1>2. IInv /\ IInv' /\ [Next]_vars => [Promise!Next]_(Promise!vars)
  <2> SUFFICES ASSUME IInv, IInv', [Next]_vars
               PROVE  [Promise!Next]_(Promise!vars)
    OBVIOUS
  <2>1. CASE Cycle
    <3>1. PICK issue_entry, cdb, granted : CycleWith(issue_entry, cdb, granted)
      BY <2>1, CycleHasInputs
    <3>2. ~stopped
      BY <2>1, CycleHasInputs
    <3>3. Promise!Load \/ Promise!Store \/ Promise!Fault \/ Promise!Idle
      BY <3>1, <3>2, LoadIsLoad, StoreIsStore, FaultIsFault, OtherwiseIsIdle
    <3> QED
      BY <3>2, <3>3 DEF Promise!Next
  <2>2. CASE Flush
    <3>1. ~stopped
      BY <2>2 DEF Flush
    <3> QED
      BY <2>2, <3>1, FlushIsFlush DEF Promise!Next
  <2>3. CASE UNCHANGED vars
    BY <2>3 DEF vars, Promise!vars, accesses, done, head_written, LSQ!matching_response,
       LSQ!front, LSQ!empty
  <2> QED
    BY <2>1, <2>2, <2>3 DEF Next
<1> QED
  BY <1>1, <1>2, Invariance, PTL DEF Spec, ImplementsInOrderMemory
=============================================================================
