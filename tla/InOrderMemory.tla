--------------------------- MODULE InOrderMemory ---------------------------
(***************************************************************************)
(* What the core relies on the load/store queue and the memory unit for,   *)
(* whatever it does itself: memory instructions take effect one at a time  *)
(* and in program order, each once; a store only when the reorder buffer   *)
(* has said so; and what a flush removes has no effect at all.             *)
(***************************************************************************)
EXTENDS Instruction, MemoryImage, Sequences

VARIABLES
  pending,      \* the instructions that have not taken effect, oldest first
  image,        \* memory
  delivered,    \* the loaded value that waits for the bus, or None
  authorised,   \* the store that may write, or None
  faulted       \* an access has failed: the core stops

vars == <<pending, image, delivered, authorised, faulted>>

(* Address and value become known at some time, and then stay. *)
Access == [tag : RobTag, op : OP, address : Maybe(Address), value : Maybe(Word)]

width(op) ==
  CASE op \in {"LB", "LBU", "SB"} -> BYTE
    [] op \in {"LH", "LHU", "SH"} -> HALF
    [] OTHER -> WORD

loaded_value(access) ==
  LET raw == read(image, access.address, width(access.op))
  IN  IF access.op \in {"LB", "LH"} THEN sign_extend(raw, width(access.op) * ByteBits) ELSE raw

Init == pending = <<>> /\ delivered = None /\ authorised = None /\ faulted = FALSE

oldest == Head(pending)
reaches_memory == in_bounds(oldest.address, width(oldest.op))

(* An address or a value that was unknown may now be known. *)
learnt(before, after) ==
  /\ after.tag = before.tag /\ after.op = before.op
  /\ before.address # None => after.address = before.address
  /\ before.value # None => after.value = before.value

tags(accesses) == {accesses[i].tag : i \in DOMAIN accesses}

(* Those of before that are left have only been learnt about, and at most  *)
(* one new instruction has joined behind them.                             *)
carried_on(before) ==
  /\ Len(pending') \in {Len(before), Len(before) + 1}
  /\ \A i \in DOMAIN before : learnt(before[i], pending'[i])
  /\ Len(pending') > Len(before) => pending'[Len(pending')].tag \notin tags(before)

Idle == carried_on(pending) /\ UNCHANGED <<image, faulted>> /\ delivered' \in {delivered, None}

Load ==
  /\ pending # <<>> /\ is_load(oldest.op) /\ oldest.address # None /\ reaches_memory
  /\ delivered' # None
  /\ delivered'.tag = oldest.tag /\ delivered'.result = loaded_value(oldest)
  /\ carried_on(Tail(pending)) /\ UNCHANGED <<image, faulted>>

Store ==
  /\ pending # <<>> /\ is_store(oldest.op)
  /\ oldest.address # None /\ oldest.value # None /\ reaches_memory
  /\ authorised = oldest.tag
  /\ image' = write(image, oldest.address, width(oldest.op), oldest.value)
  /\ carried_on(Tail(pending)) /\ UNCHANGED faulted
  /\ delivered' \in {delivered, None}

Fault ==
  /\ pending # <<>> /\ oldest.address # None /\ ~reaches_memory
  /\ is_store(oldest.op) => authorised = oldest.tag
  /\ faulted' = TRUE
  /\ carried_on(pending) /\ UNCHANGED image /\ delivered' \in {delivered, None}

Flush ==
  /\ pending' = <<>> /\ delivered' = None
  /\ UNCHANGED <<image, faulted>>

Next == ~faulted /\ (Idle \/ Load \/ Store \/ Fault \/ Flush)

Spec == Init /\ [][Next]_vars
=============================================================================
