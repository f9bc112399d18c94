------------------------------ MODULE Signals ------------------------------
(***************************************************************************)
(* The values the modules of the Tomasulo core exchange: words, reorder    *)
(* buffer tags, operands, the broadcast message and the result message     *)
(* (common/types.hpp and tomasulo/signals.hpp).  A byte has ByteBits bits, *)
(* 8 in the code; a word is four bytes, as in the code.                    *)
(*                                                                         *)
(* A C++ struct whose `valid` flag is false is the value None: nothing in  *)
(* the code reads the other fields of an invalid struct.                   *)
(***************************************************************************)
EXTENDS Naturals

CONSTANTS
  ByteBits,        \* bits of a Byte (8 in the code)
  RegisterCount,   \* number of architectural registers (32)
  RobCapacity,     \* ReorderBuffer::kCapacity (32)
  GenerationSize,  \* number of values of a TagGeneration (2^32)
  None             \* an invalid struct

ASSUME SignalsAssumption ==
  /\ ByteBits \in Nat \ {0}
  /\ RegisterCount \in Nat \ {0}
  /\ RobCapacity \in Nat \ {0}
  /\ GenerationSize \in Nat \ {0, 1}

WordBits == 4 * ByteBits
ByteSize == 2 ^ ByteBits
WordSize == 2 ^ WordBits

Byte == 0 .. ByteSize - 1
Word == 0 .. WordSize - 1
Address == Word
RegisterIndex == 0 .. RegisterCount - 1
RobIndex == 0 .. RobCapacity - 1
TagGeneration == 0 .. GenerationSize - 1

(* The index names a slot of the ring, the generation tells the successive *)
(* instructions that used the slot apart.                                  *)
RobTag == [index : RobIndex, generation : TagGeneration]

(* None is no tag. *)
ASSUME NoneAssumption == None \notin RobTag

Maybe(S) == S \cup {None}

(* A source operand has a value or waits for the broadcast of a tag. *)
Operand == [ready : BOOLEAN, value : Word, tag : Maybe(RobTag)]

ready_operand(value) == [ready |-> TRUE, value |-> value, tag |-> None]
waiting_operand(tag) == [ready |-> FALSE, value |-> 0, tag |-> tag]

(* CDB -> ROB / RS / LSQ. *)
CDBMsg == [tag : RobTag, value : Word]

(* Functional unit or load queue -> CDB -> ROB. *)
FUResult == [tag : RobTag, result : Word, actual_next_pc : Address,
             branch_taken : BOOLEAN, has_control_result : BOOLEAN]
============================================================================
