# A TLA+ model of the RISC-V Tomasulo CPU simulator

This directory holds TLA+ specifications of the simulator, TLC configurations
that check them on small instances, and proofs, checked by TLAPS, of the safety
invariants of the CPU and its parts for every size and program. Source paths
below are relative to the repository's root.

The question it answers: does an out-of-order CPU with renaming, speculation, a
load/store queue and a slow memory port do exactly what a sequential
interpreter of the same instructions does, and does it always get on with it?

## The system

`CPU` (`src/tomasulo/cpu.cpp`) owns nine components that keep state and one that does
not, and calls `cycle()` until its status is no longer `Running`. A cycle has
four phases: *observe* the latched state, *plan* (every component decides from
latched state alone), *apply* (every component computes its next state from the
frozen decisions) and *latch*. Nothing runs concurrently in the C++ sense: the
concurrency is that of hardware, up to a ring's worth of instructions in
flight, each spread over several components.

| component | state | operations | talks to |
|---|---|---|---|
| reorder buffer (ROB) | ring of entries, generations, head, tail, count | next_tag, lookup, plan (commit, flush, store authorisation), apply | issue, bus, LSQ (store authorisation and completion), register file, RAT |
| register alias table (RAT) | register → tag of the youngest writer in flight | lookup, apply (commit, issue, flush) | issue, ROB |
| register file | architectural registers | read, apply at commit | ROB, issue |
| reservation station (RS) | slots of waiting instructions, round-robin cursor | plan (dispatch), apply (wake-up, removal, insertion) | issue, bus, functional unit |
| load/store queue (LSQ) | ring of memory instructions, one finished load | plan (answer, request), apply | issue, bus, memory, ROB |
| functional unit (FU) | one finished result | apply | RS, bus |
| common data bus (CDB) | whose turn it is | plan, apply | FU, LSQ → ROB, RS, LSQ, issue |
| memory unit | the image, one transaction, one answer | fetch, apply, load | LSQ, fetch |
| branch predictor | two-bit counters, two statistics | predict, apply at commit | fetch, ROB |
| memory image | bytes, byte count, highest loaded address | load (a text of `@address` and byte tokens), bounds-checked reads and writes | memory unit, interpreter |
| decoder | none | decode | fetch, interpreter |
| issue unit | none | plan | everything above |
| main program | what it printed | load, run, report | CPU |
| circular queue | array, head, tail, size | push, pop, clear, front, back | nothing: only its test uses it |
| reference interpreter | pc, registers, image, status | load, step, run | the same decoder and image code |

### What is hard, and what makes each part correct

The list with source lines is in `PROJECT.json` (`hazards`). In short:

* an operand that waits must wait for a broadcast that is still to come, though
  the producer may broadcast in the very cycle the consumer is issued;
* the alias table must name the youngest writer, across a commit, an issue and a
  flush in one cycle;
* a store changes memory before it commits, so it must not start until nothing
  can undo it;
* memory goes on serving a load that a flush removed, and its answer must not
  be taken by a new load in the same slot;
* an unfinished instruction must be in exactly one place, a finished one in none;
* HALT, fetch errors, decode errors and memory faults met on a wrong path;
* rings that are full, wrap around, or lose and gain an entry in one cycle;
* nobody may wait in a circle: bus, result buffer, memory port, ring head;
* and nobody for ever: two producers share the bus, all ready entries one
  functional unit;
* the order of the calls inside a phase is shuffled and must not matter;
* instructions are fetched from memory that older stores have not written yet;
* a file can turn out to be faulty after part of it is in memory;
* scattered immediates, and words that are data and not instructions;
* a reload while a memory transaction is in flight.

## The modules

| module | models |
|---|---|
| `Signals` | word, tag, operand and message types (`common/types.hpp`, `tomasulo/signals.hpp`) |
| `WordArithmetic` | machine words: wrapping, signed comparison, shifts, extensions |
| `Instruction` | the operations and what the decoder derives from each |
| `MemoryImage` | bounds-checked little-endian byte memory |
| `ReorderBuffer`, `RenameTable`, `RegisterFile`, `ReservationStation`, `LoadStoreQueue`, `FunctionalUnit`, `CommonDataBus`, `MemoryUnit`, `BranchPredictor`, `IssueUnit` | the component of that name |
| `CPU` | `cycle()`, `load()`, `run()`: instances of all of the above, wired together |
| `CPUProperties` | the invariants over several components and the refinement mapping |
| `Interpreter` | `reference/interpreter.cpp`; the abstract specification of the CPU |
| `Cosimulation` | CPU and interpreter side by side on one image |
| `InOrderQueue` | the abstract specification of the reorder buffer |
| `CPUPhases` | `cycle()` call by call: plan, apply and latch of each component in any order, latched and next values kept apart; implements `CPU` |
| `MemorySystem` | LSQ and memory unit under an arbitrary core; implements `InOrderMemory` |
| `InOrderMemory` | the abstract specification of the two: a list of accesses of which the oldest takes effect |
| `ExecutionEngine` | RS, FU and CDB under an arbitrary issue unit and load queue |
| `Program`, `SequentialProgram` | `main()` with the statistics, and the same around the interpreter; the first implements the second |
| `SelfModifyingCode`, `DelayedInterpreter` | the CPU with a history of its memory, and an interpreter that fetches from a memory a few writes old; the first implements the second |
| `Decoder`, `Assembler` | `isa/decoder.cpp` on words of 32 bits, and the encoders of its test |
| `ImageLoader` | `MemoryImage::load()` token by token |
| `CircularQueue`, `BoundedFifo`, `CircularQueueProofs` | `common/circular_queue.hpp`, what it promises, and why it keeps it |
| `ReorderBufferProofs` | why the ring keeps what it guarantees to any caller |
| `ExecutionEngineProofs` | why nothing in the execution engine starves or runs twice |
| `MemorySystemProofs` | why queue and memory take effect in program order |
| `CPUProofs`, `CPUFlowProofs` | the invariants of the CPU: its types, ring, rename table and fetch stage; the way of each instruction through queues, unit, bus and memory |
| `CPUPhasesProofs` | why the order of the calls within a cycle does not matter |
| `ProgramProofs` | why the CPU does what the interpreter does and `main()` prints its result; the invariants across reloads, and the statistics |
| `MCCPU`, `MCCPUPhases`, `MCProgram`, `MCReorderBuffer`, `MCInterpreter`, `MCDecoder` | small instances for TLC |

How the state corresponds to the code:

* The variables are the *latched* members (`cur_`, `head_`, `current_result_`, ...).
  The `next_` members live only within a cycle and are primed variables.
* `plan()` is a set of operators over the latched state, `apply()` followed by
  `latch()` is an action of the component. `CPU!Cycle` is their conjunction: no
  component can see another's next state, as the code intends.
* A struct whose `valid` (or `busy`) flag is false is `None`; no code reads the
  other fields of an invalid struct.
* The flags `is_load`, `is_store`, ... of a decoded instruction are functions of
  its operation. Two fields are left out: `uses_rs1`/`uses_rs2`, which nothing
  in the core reads, and the copy of the predicted address in the RS.
* A byte has `ByteBits` bits instead of 8, a word four bytes. Addressing,
  alignment, little-endian order, sign and zero extension, wrap-around and the
  lost bit of a JALR target are those of the code.
* `Decode` is a constant function from words to instructions: the encoding is
  abstracted, *when* a word is decoded is not.
* In `Decoder` a word is the set of the positions of its 1 bits, so a field is a
  slice of the set, and the immediates have their 32 bits.
* In `ImageLoader` a token is an address or a byte with the number its digits
  stand for, `None` when they are none.
* The statistics, which the core does not read back, are in `Program`.

### The CPU implements the interpreter

`ImplementsInterpreter == Sequential!Spec`, where `Sequential` is the interpreter
with its registers, memory and exit code mapped to the CPU's own, and

* `pc` ↦ `committed_pc`: the address of the oldest instruction whose effect is
  not architectural yet. That is the head of the ring, or the one behind it when
  the head is a store whose write memory has already made, or the fetch address
  when the ring is empty;
* `status` ↦ the CPU's status, except that `MemoryOutOfBound` is still `Running`:
  the CPU reports a fault when the answer arrives, with older instructions
  perhaps uncommitted, and the interpreter has not met it.

Every cycle is then one interpreter step or a stutter: registers, memory, exit
code and stop reason change in program order, whatever happened out of order.

Two limits of this claim come from the code. First, a program that stores into
instructions it then executes may run the old ones, because fetch does not look
at stores that wait (RISC-V asks for FENCE.I there, which the decoder rejects);
the alphabets of those runs contain no such stores. `SelfModifyingCode` is about
the programs that do: its CPU implements `DelayedInterpreter`, which fetches each
instruction from memory as it was at most `LsqCapacity` writes ago. (With one
write less the run fails: the bound is exact.) Second, `Interpreter` is faithful
to the reference's SLT and SLTU, which are wrong (below), so the runs of the CPU
leave these two operations out. The two are the premises of the proof (`ProgramOrder`).

### The other refinements

* `ImplementsCycle`: in `CPUPhases` each component has a latched and a next value.
  A cycle takes effect, seen from `CPU`, when the last `apply()` has returned and the
  status is decided; while the latches are called, one by one, the next values
  count already. `PlanModule` and `ApplyModule` say which calls are shuffled, and every
  order is tried, not only the 64 the code draws when it is constructed. The
  premise of `CPU`, one step of all components together, is thus a result.
  `NextStartsFromLatched` is what makes `apply()` of one component an action of
  its own on next values: they never hold anything an earlier cycle left behind.
  The store that memory has scheduled is the exception the code makes: `latch()` does
  not clear it, the next `apply()` or `reset()` does. Until then memory must
  hold what it would write.
* `ImplementsInOrderMemory`: the accesses the queue holds, but for a store that
  memory has already made, are the abstract list; memory and the finished load
  are seen as they are. Accesses enter at the end, take effect at the front,
  once, with the address and data they were given, or are dropped by a flush.
* `PrintsTheInterpretersResult`: the number of committed instructions is that of
  the interpreter, one more while the store at the head is written but not
  committed. `SequentialProgram!Report` allows a failure at any moment before the
  program halts, since a load on a wrong path can cause one (finding 1). So what
  is printed after a HALT is the interpreter's result, but that a failure is the
  program's own is not claimed, here or by `WhatIsPrinted`.
* `IsFifo`: the queue is what the array holds from the head on, `size` long.

## What is checked

| run | what it explores | what it shows |
|---|---|---|
| `reorder_buffer` | a ring of 3 slots, 2 generations, every sequence of calls with right, stale and missing tags | `TypeOK`, `RingIsContiguous`, `TagsNameTheirSlots`, `NewTagsAlwaysDiffer`, and `CommitsInOrder`: the ring implements `InOrderQueue` |
| `pipeline` | all 1024 programs of 5 from 4: chains through x1 and x2, loads that cut a chain and whose late results meet the integer results on the bus, a branch that waits for them; all 2401 of 4 from 7: taken and untaken branches forward and back, JAL, JALR to odd and to invalid addresses, HALT, a load; all 2401 of 4 from 7: aliasing, narrow, misaligned and faulting loads and stores, and a branch over them; and each operation but SLT, SLTU after two settings of x1 and of x2, among them negative ones | `TypeOK`, `RatNamesYoungestWriter`, `OnePlaceEach`, `WakeUpStillToCome`, `StoppedBehindHalt`, `StoresAreNonSpeculative`, `AnswersMeetTheirRequests`, `AssertionsHold`, `ImplementsInterpreter`, `Progress` |
| `phases` | 12 programs (dependences, aliasing stores, wrong paths with faults, HALT and invalid words), every order of the calls in every cycle | `ImplementsCycle`, `NextStartsFromLatched` |
| `memory_system` | every sequence of loads and stores with known or awaited operands, grants and refusals of the bus, authorisations, flushes at any time | `ImplementsInOrderMemory`, `AccessesFinish` |
| `execution` | every sequence of instructions that wait for each other or for a load, loads that finish at any time, flushes | `TypeOK`, `BoundedOvertaking`, `ResultsWaitOneCycle`, `ExecutedOnce`, `NothingStarves` |
| `program` | all 256 programs of 4 from an addition, a store and two branches, and 9 of 2 from a load, a store and a jump; each loaded, and loaded again at any moment, whole or cut short by an error, until the program ends and `main()` returns | `StoresAreNonSpeculative`, `ImplementsInterpreter`, `PrintsTheInterpretersResult`, `IncorrectMeansFlushed` |
| `self_modifying_code` | all 6561 programs of 4 from 9 with stores of two different bytes into their fourth word, branches and jumps back over it | `StaleByTheQueueAtMost` |
| `decoder` | every operation with three choices of registers and each bit of its immediate alone, none and all; and every word one bit away from one of those | `DecodesWhatWasAssembled`, `AcceptsOnlyEncodings`, `FlagsFollowOperation` |
| `image_loader` | every file of up to 2 lines and 5 tokens over a memory of 3 bytes, addresses and bytes in and out of range or no numbers, loaded one after the other with stores in between | `ImageIsTheFile`, `FaultsAreReported` |
| `circular_queue` | every sequence of calls | `IsFifo` |
| `wrong_path_fault` | expected violation | see Findings |
| `set_less_than` | expected violation | see Findings |

`AssertionsHold` gathers the `assert`s of `cpu.cpp:421-437`,
`load_store_queue.cpp:255` and `functional_unit.cpp:211`: what one component
decides to send, its receiver takes.

### The bounds, and why they are enough

* 2 RS slots and 2 LSQ slots; 5 ring slots in `pipeline`, 4 in the other runs of
  the CPU. 5 is the least at which the unit cannot take what the station offers
  because a load has the bus, and programs of 5 with a branch still flush a full
  ring. Together with branches that repeat: rings wrap, every structure fills,
  and an issue stalls for each reason.
* `memory_system`: 2 LSQ slots, 2 addresses, 2 values, two tags for queued
  accesses and one for a producer outside, so that an access is issued while
  the answer to a flushed one is on its way. `execution`: 3 RS slots, at which
  one entry could be passed over again and again by two others, four tags for
  them and one for a load, so that the station is full and the unit busy.
* `GenerationSize = 2` in the components on their own: the least at which two
  occupants of a slot differ, so that a tag is in use again as soon as it can
  be. 3 in the CPU, the least that `LatencyAssumption` allows.
  `DataLatency = 3` is the code's own: with it a flushed load's answer does meet a
  reused slot.
* `ByteBits = 2`: words of 8 bits, 256 addresses, memories of 16 to 32 bytes, so
  that addresses wrap, fall out of bounds and signs matter.
* 3 registers: x0, which is special, and two that depend on each other.
  `ExitRegister` is x1 there (x10 in the code).
* 2 predictor entries: branches alias.
* In `phases` the programs are chosen instead of enumerated: a cycle has some
  thousand interleavings of calls, which do not depend on how many programs
  there are but on what the components do in one cycle.
* `MaxTokens = 5` is enough for two addresses and three bytes: an overwritten
  byte, a byte behind the end, a fault after a sound beginning. `MemorySize = 3`.
* One flipped bit makes each unassigned `funct3`, `funct7` and opcode next to an
  assigned one.
* `MaxCount = 16` stops the counters of `program` on both sides of the refinement;
  most programs end before.
* `CHECK_DEADLOCK FALSE` for the CPU, the interpreter, the decoder and the memory
  system: a program that ends, ends; a memory fault stops the queue. The reorder
  buffer, the execution engine, the image loader and the circular queue must never
  be stuck and are checked for deadlock.

### Fairness

`Spec` assumes `WF_vars(Cycle)` and nothing else: `CPU::run()` (`cpu.cpp:483-493`)
calls `cycle()` in a loop for as long as the status is `Running`, and a cycle is
always possible then. No fairness between components is assumed: round-robin
dispatch and the alternation of the bus are in the model. `Progress` says that a
running CPU commits again and again; an endless program satisfies it, a CPU
that waits for something that never comes does not.

The execution engine and the memory system alone assume the same, weak fairness
of a cycle (with a flush possible at any time), and what they may expect of their
surroundings is the premise of the property, not part of the specification:
`NothingStarves` expects that the loads waited for come; `AccessesFinish` expects
(`core_is_fair`) that a finished load gets the bus again and again, which
`ResultsWaitOneCycle` shows of the bus, that operands from outside arrive, which
is `NothingStarves`, and that a store reaches the head of the ring.

## What is proved

The CPU implements the sequential interpreter, and `main()` prints the interpreter's
result, for every program but those that are exceptions in the code (below). Every
safety invariant that `pipeline` checks of the CPU is a theorem: TLC found the
invariants on small instances, the proofs hold for every program, predictor,
width of the byte, size of the ring and of the queues; so does the theorem that the
order of the calls within a cycle does not matter. That queue and memory together
take effect in program order is proved for any core around them, and what
`program` checks of reloads and statistics for any number of reloads. Eight
modules hold proofs.

### Assumptions

`CPUAssumption` and `SignalsAssumption` give the constants their types (sizes are
positive, `Decode` is a function). The others:

* `NoneAssumption`, `EntryAssumption`, `NothingAssumption`, `ExecutionAssumption`: `None` is
  not one of the values it stands beside, as an `optional` or a `valid` flag ensures.
* `PowersAssumption`, `BitsAssumption`: the powers of 2 up to the width of a word
  multiply as powers do, and a sum of the powers of two of a set of bit
  positions is a word. Exponentiation and the sum are recursive, which the
  provers cannot compute; TLC evaluates the two assumptions in every run.
* `LatencyAssumption`: a slot of the ring is given out at least as many times before
  its tag comes round as memory takes cycles (`DataLatency <= GenerationSize`). In
  the code it is 3 against 2^32. Without it `AnswersMeetTheirRequests` is false: a
  flushed load's answer could meet a new load with the very same tag.

### The reorder buffer (`ReorderBufferProofs`)

From `SignalsAssumption`, `NoneAssumption` and `EntryAssumption`, for every
capacity and every sequence of calls with any inputs whatever:

* `TypeCorrect`: `Spec => []TypeOK`;
* `RingStaysContiguous`: `Spec => []RingIsContiguous`;
* `TagsAreUnique`: `Spec => []TagsNameTheirSlots`;
* `TagsAreFresh`: `Spec => NewTagsAlwaysDiffer`;
* `RingImplementsQueue`: `Spec => CommitsInOrder`, the refinement of `InOrderQueue`.

The inductive invariant is the conjunction of the first three. None would do
alone: that a new entry fills a free slot needs the ring to be contiguous, the
ring stays contiguous because head and tail stay in range and wrap alike, and
the tags follow the slots only if an entry is written where the tail says.
The argument first disposes of recording results (`CompletionKeepsOccupants`,
`StoreCompletionKeepsOccupants`: a result changes no slot's occupant), then takes
the ways a cycle can end one at a time: flush, retire, issue (with or without
retiring), recording alone, reset. Contiguity is arithmetic on `distance`, how
far a slot is from the head: moving the head takes one from every distance but
its own (`DistanceBehindTheHead`), and the tail is the only slot at distance
`count` while there is room (`TailIsNext`). For the refinement the abstract queue is
`tags_in_order`, the tags slot by slot from the head; the same ways to end a cycle
are its leave, join and clear.

### The circular queue (`CircularQueueProofs`)

`ArrayIsFifo`: `Spec => IsFifo`, for every capacity and
every set of values, from `QueueAssumption` (the capacity is positive, as the
`static_assert` says). The invariant it rests on is that head, tail and size stay
in range and that the tail is `size` places behind the head, modulo the capacity;
with it each call, accepted or refused, maps to the same call of `BoundedFifo`. The
arithmetic is in lemmas on indices that go round: no two of the first `size`
places coincide, and the place behind the last is the tail.

### The execution engine (`ExecutionEngineProofs`)

`OvertakingIsBounded` (`BoundedOvertaking`), `LoserGoesNext` (`ResultsWaitOneCycle`) and
`EachExecutesOnce` (`ExecutedOnce`), for every number of slots. That a ready entry is
overtaken less often than there are slots is not inductive; `TurnsAreKept` is:
an entry that was overtaken n times is now less than `RsCapacity` - n places
from the cursor, since whatever overtakes it lies between and the cursor
stops behind it. That an entry is executed once needs `TagsDiffer`: no two
entries, and not the unit's result either, have one tag.

### The CPU

*Types* (`CPUProofs`). `TypeCorrect`: `Spec => []TypeOK`, wire by wire: each component's
outputs have the type its listeners expect if the latches have theirs, and each
component's step keeps its own latches. It rests on lemmas about the arithmetic:
sums and differences wrap, shifts and extensions stay in the word, a CHOOSE of
the least distance picks one of the ready slots.

*The ring inside the CPU* (`CPUProofs`). `CycleOfTheRing` says slot by slot what a
cycle does: an entry `stays` (and ages by one if the head retires), `joins` at
the tail, or goes. With it `RingInv` (types, contiguity, tags) is kept, and over it
two invariants that name the youngest:

* `TableFollowsRing`: `Spec => []RatNamesYoungestWriter`. For each register the writers
  after a cycle are those that stay and the new one; the table's entry is the
  new tag, None after a flush, None if the head commits and is the one it
  names, else unchanged. The head is the oldest, so if it is also the youngest
  writer there is no other.
* `HaltStopsFetch`: `Spec => []StoppedBehindHalt`.

*The flow* (`CPUFlowProofs`). The remaining invariants are not inductive on their own;
`FlowInv` is. Its parts:

* `FlightIsSound`: nothing invalid is in flight, a HALT is ready from the start,
  and who writes a register has an operation that does.
* `PlacesInv`: the queue is contiguous (`LsqContiguous`); whatever a queue, the unit or
  the result buffer holds belongs to an instruction in flight that is
  unfinished and of the kind that goes there (`StationsBacked`, `QueueBacked`,
  `ResultsBacked`); no two hold the same (`StationsDiffer`, `QueueDiffers`,
  `ResultsDiffer`); each unfinished instruction is held somewhere (`NoneIsLost`).
* `MemoryInv`: only the head of the queue has asked memory, for something that no
  longer changes (`RequestsAreFinal`), when the result buffer was free or, for a
  store, when it was the head of the ring (`RequestsAreTimely`); what memory serves
  or answers is for that head or for a load that was flushed and whose tag
  cannot have come round yet (`TransactionIsKnown`, `ResponseIsKnown`); and the head
  that has asked is served or answered (`RequestsAreServed`). "Cannot have come
  round" is `drift`, how often the slot was given out since, plus the cycles
  that memory still needs: less than `DataLatency`.
* `WakeUpStillToCome` itself, which needs the rename table's invariant when an
  instruction is issued and the places when a result is broadcast.

`FlowInvariance`: `Spec => []FlowInv`. A cycle is taken apart component by component
(`CycleOfTheStations`, `CycleOfTheUnit`, `CycleOfTheQueue`, `CycleOfMemory`, `CycleOfTheBus`:
what each does to each slot), and there is one lemma per conjunct that a cycle
keeps it. From `FlowInv` follow

* `OperandsAreAwaited`: `Spec => []WakeUpStillToCome`;
* `NoneLostNoneTwice`: `Spec => []OnePlaceEach`;
* `StoresWaitForTheirTurn`: `Spec => []StoresAreNonSpeculative`;
* `AnswersAreToTheAsker`: `Spec => []AnswersMeetTheirRequests`;
* `NoAssertionFails`: `Spec => []AssertionsHold`.

`Load` may happen once in `Spec`, as in `main()`; the invariants are kept by a `Load` in
any state (`LoadEstablishes`, `LoadFlows`), hence by `Next` too, and by the program below.

### The program (`ProgramProofs`)

`ReloadsAreSafe`: `ProgramSpec => []FlowInv`. `Program` loads at any moment, with a full
ring and memory busy. `load()` resets every component, the turn of the bus, the cursor
of the station and the generations included, so the next program may be given a tag
that one of the last still had in flight: nobody is left to confuse the two, since
the transaction and the answer in flight go as well. Memory is cleared before the file
is read; when it does not parse, what was read of it stays.
`StoresWaitAcrossReloads` (`StoresAreNonSpeculative`) follows.

`WrongCountsAreFlushes`: `ProgramSpec => IncorrectMeansFlushed`. What the predictor is told
at a commit and what the ring compares when it decides to flush are the same two
addresses of the same entry, in the same cycle (`WrongIsFlushed`): nothing can be
stale between the two. The property is there for the count of right predictions,
which nothing else checks.
`CountsStayInRange`, never more right predictions than predictions, goes with it.

### Program order (`ProgramProofs`)

The main promise of the CPU, for all capacities, latencies, predictions, images
and decoders:

* `ProgramOrder`: `Spec /\ [][CodeInFlightStays]_vars /\ []NoSetLessThan =>
  ImplementsInterpreter`;
* `WhatIsPrinted`: `ProgramSpec /\ [][CodeInFlightStays]_vars /\ []NoSetLessThan =>
  PrintsTheInterpretersResult`, over any number of reloads. Like the property, it is
  about a result that is printed, and leaves open when `main()` fails.

Without its two premises, which are about the program that runs and not about the
CPU, neither would be true:

* `CodeInFlightStays`: no step changes the word in memory from which an instruction
  that is in flight after it was fetched. Fetch does not look at stores that
  wait, so a program that does change it may run stale code (`SelfModifyingCode`).
* `NoSetLessThan`: no SLT and no SLTU commits (finding 2). On a wrong path they may occur.

The programs of `pipeline` and of `program` satisfy both, with stores, loads and
branches of all kinds among them.

The invariant is `FlowInv`, which says where each instruction is, and `RightInv`,
which says that it has there what the interpreter would give it
(`RightInvariance`: `Spec /\ [][CodeInFlightStays]_vars => []RightInv`):

* `CodeIsDecoded`, `PathIsPredicted`: each entry of the ring is what its address holds
  in memory, its address is what the one before it predicted, the fetch address
  what the youngest predicted; nothing is behind a HALT.
* `OperandsAreRight`: an operand that has a value has that of the youngest older writer
  of its register in flight, or of the register file if there is none
  (`Provides`); one that waits, waits for that writer (`Awaits`). `SourcesFollow` is
  the heart of it: when the head commits, who reads it finds the same value in the
  register file, since no older writer is left.
* `FinishedIsRight`: a result is computed from such operands (`Computes`) or loaded from
  memory as it is now (`Loads`). The second needs `MemoryIsOrdered`: the queue is
  in program order and behind the loads that are done, so that when a store writes,
  as the head of the ring, every load that is done is older and every younger
  one has yet to read.

The head of the ring has no older writers: its operands are the registers
(`HeadReadsRegisters`), its result is the interpreter's (`SameResults`, `SameLoads`: the
functional unit and the queue compute what the interpreter does, operation by
operation), and its true successor, predicted or redirected to, becomes the head
(`PathFollows`). So a commit is a step (`ComputingCommits`, `LoadCommits`, `HaltCommits`);
a store's step is the cycle in which memory writes (`StoreWrites`), and its commit
none (`StoreCommits`); a word that cannot be fetched or decoded is a step once the
ring is empty, and everything else is none (`NothingCommits`). For what is printed,
`CycleIsPrinted` counts along: a store counts when it is written.

### The memory system (`MemorySystemProofs`)

`MemoryIsInOrder`: `Spec => ImplementsInOrderMemory`, for every capacity, memory size,
width of the byte and latency, and every behaviour of the core within the
guards of `MemorySystem`. The inductive invariant (`Invariance`) is smaller than that of
the CPU, and does without a clock: the core gives out no tag that memory still knows.

* `QueueIsContiguous`, `EntriesAreAccesses`: a ring of loads and stores with different
  tags; a load has no data to wait for.
* `RequestsAreFinal`, `RequestsAreTimely`, `AuthorisedIsHead`: only the head has asked,
  for what changes no more, with room for the result or with leave to store.
* `TransactionIsKnown`, `ResponseIsKnown`: what memory serves or has just answered is
  the head's request or that of a flushed load whose tag nobody in the queue
  has; an answer to the head is right for the memory as it is now. A store is
  never abandoned, since nothing is flushed while one is authorised.

A cycle is again taken apart component by component (`CycleOfTheQueue`, `CycleOfMemory`),
with a lemma per conjunct. For the refinement the abstract list is the queue from its
head (`Queue`) or, when the head is a written store, from the one behind it (`Rest`).
`Finishes` and `CarriedOn` say what a cycle leaves of it: nothing or the first access
goes, the others stay as they are or learn an operand, one may come at the end.
What the cycle is to the specification then depends on memory and the head alone: the
head that takes a loaded value is a load (`LoadIsLoad`: the bytes that were read when
the answer was made are those of the memory now), a store that memory writes is
a store (`StoreIsStore`), a refused address a fault (`FaultIsFault`), all else, the
departure of a store that was written included, no effect (`OtherwiseIsIdle`). A flush
empties queue and list (`FlushIsFlush`).

### The order of the calls (`CPUPhasesProofs`)

`OrdersDoNotMatter`: `PhasedSpec => ImplementsCycle`, from the assumptions of `CPU`. The
code takes a cycle as some twenty calls in shuffled orders, `CPU` as one step; by
this theorem the second is no idealisation of the first, and each step that the
proofs above are about is one the code takes. `NothingIsLatchedTwice`:
`PhasedSpec => []NextStartsFromLatched`.

`Clocked` is `CPU` with every variable replaced by the value that is *seen*, latched
or next by phase. Its operators are thus copies of those of `CPU`, and the first
lemmas (`SameRing` to `SamePlans`) say, wire by wire, that the copies agree as long as
the latched values are the ones seen. `Frozen` and `FrozenResults` say that what
depends on latched values alone does not change while those do not.

The inductive invariant is `PhasesInv`: besides `NextStartsFromLatched`,

* `WiresAreObserved`, `AnswersAreFrozen`: what was observed and decided is, until the
  last `apply()`, what the latched state says. Without it a component could apply
  an input that another's call has changed;
* `NextIsApplied`: the next values of each component that has applied are the
  result of its step from the latched ones (`RobApplied`, `RsApplied`, ...). Its
  `apply()` on next values gives that (`RobApplies`, ...), because they start from the
  latched ones; and seen from the latches it is the component's step in `CPU`
  (`RobSteps`, ...);
* `ServesARequest`: a transaction has a request. Otherwise the store that memory
  schedules for the clock edge could be `None`, which is no store.

That a store still scheduled changes nothing, a part of `NextStartsFromLatched`, is
kept by its latch because to write the same bytes again changes nothing
(`WriteTwice`), and by a load because it drops the store with the memory it was for.

Then `Decide` is `Clocked!Cycle`, a load is a load, and every other call leaves what is
seen as it was.

### What the proofs changed in the model

Two CASE expressions had arms that could hold together (`LoadStoreQueue!served`,
when the head is removed, and `MemoryUnit!next_transaction`); TLC takes the first,
the semantics leaves the choice open. They are disjoint now. The runs had two
generations with a latency of three cycles, which `LatencyAssumption` excludes;
they have three. `WordArithmetic!from_bits` is a recursive function instead of a fold
of the community modules: a proof about two copies of the functional unit has
to expand it in both.

### What is only model-checked

* The refinement `StaleByTheQueueAtMost`, of programs that change their own code.
  Its abstract interpreter fetches from a memory of the past, so the invariant
  would have to say, for each instruction in flight, which write it was fetched
  before. `ImplementsInterpreter` and `PrintsTheInterpretersResult` are proved for the
  programs they are true of.
* All liveness: `Progress`, `NothingStarves`, `AccessesFinish`. Liveness under
  fairness is outside what TLAPS proves.
* The decoder and the image loader. The properties of the first are about 2^32
  words bit by bit, which is evaluation, not deduction; those of the second
  speak of a file as a whole (`FlattenSeq`), and what a fold computes takes an
  induction that the provers here cannot do.

## Findings

1. **A wrong-path load can stop a correct program** (`wrong_path_fault`). Loads
   are sent speculatively; a failed answer makes the LSQ raise `memory_error`
   at once (`src/tomasulo/load_store_queue.cpp:172`) and `cycle()` stops the CPU
   (`src/tomasulo/cpu.cpp:460-462`), whether or not an older branch is still
   unresolved. README.md:11 promises that younger instructions of a wrong path
   are removed; fetch and decode errors do get that treatment (cpu.cpp:445-454).
   In the run, a predicted path reaches a load out of bounds while the branch
   waits for its operands; the interpreter runs to HALT, the CPU stops with
   `MemoryOutOfBound`.
2. **The reference interpreter's SLT and SLTU ignore rs2** (`set_less_than`).
   They compare with the immediate field (`src/reference/interpreter.cpp:98`,
   `:111`), which is 0 in a decoded register operation. The functional unit's
   test (`tests/unit/functional_unit_test.cpp:122`, `:124`) expects the register.

Seen while reading, and not a property of the core: README.md describes a
tournament predictor with selectable modes and a `doc/README.md`; the code has the
bimodal predictor only, `main()` takes no option, and the document is not there.

## Not modelled

* The wording and layout of what `main()` prints, and `accuracy()`, a quotient of two
  counts that are modelled.
* The characters of an image file: which digits make which number is
  `std::from_chars`.
* The random engine: every order of the calls is allowed instead of the 64 drawn.
* Widths of 32 bits in the CPU (the decoder has them); overflow of the 64-bit
  statistics.
* The unit tests, apart from what `Assembler` takes from them, and the scripts.

## Plan

Done: the components, the CPU and its refinement to the interpreter, `cycle()` call
by call, the memory system and the execution engine on their own, the decoder,
the image loader, the circular queue, the program with its statistics,
self-modifying code; proofs of the ring, the circular queue, the execution engine,
of every safety invariant of the CPU, of the order of the calls, of the memory
system's refinement, of the program's statistics, of the CPU's refinement to the
interpreter and of what is printed. Next:

1. `StaleByTheQueueAtMost`: `CodeIsDecoded` with the memory of the past each
   instruction was fetched from, and the rest of `RightInv` as it is.
