--------------------------- MODULE WordArithmetic ---------------------------
(***************************************************************************)
(* Unsigned machine words: arithmetic wraps modulo WordSize, a SignedWord  *)
(* is the two's complement reading of a Word (common/types.hpp, and the    *)
(* helpers functional_unit.cpp and interpreter.cpp each define).           *)
(***************************************************************************)
EXTENDS Signals, Integers

add(lhs, rhs) == (lhs + rhs) % WordSize
sub(lhs, rhs) == (lhs + WordSize - rhs) % WordSize

(* static_cast<SignedWord> *)
signed(value) == IF value >= WordSize \div 2 THEN value - WordSize ELSE value
signed_less_than(lhs, rhs) == signed(lhs) < signed(rhs)
signed_greater_equal(lhs, rhs) == signed(lhs) >= signed(rhs)

get_bit(value, position) == (value \div 2 ^ position) % 2 = 1

BitPosition == 0 .. WordBits - 1

(* The word whose set bits are those positions. *)
from_bits(positions) ==
  LET lowest[n \in 0 .. WordBits] ==
        IF n = 0 THEN 0
        ELSE lowest[n - 1] + (IF n - 1 \in positions THEN 2 ^ (n - 1) ELSE 0)
  IN  lowest[WordBits]

(* Arithmetic of powers, which the provers do not know.                    *)
ASSUME PowersAssumption ==
  /\ \A n \in 0 .. WordBits : 2 ^ n \in Nat \ {0} /\ 2 ^ n * 2 ^ (WordBits - n) = WordSize
  /\ ByteSize ^ 0 = 1 /\ \A n \in 0 .. 3 : ByteSize ^ (n + 1) = ByteSize ^ n * ByteSize
  /\ WordSize = ByteSize ^ 4

bit_and(lhs, rhs) ==
  from_bits({p \in BitPosition : get_bit(lhs, p) /\ get_bit(rhs, p)})
bit_or(lhs, rhs) ==
  from_bits({p \in BitPosition : get_bit(lhs, p) \/ get_bit(rhs, p)})
bit_xor(lhs, rhs) ==
  from_bits({p \in BitPosition : get_bit(lhs, p) # get_bit(rhs, p)})

(* kShiftMask keeps the shift amount below the width of a word. *)
shift_amount(value) == value % WordBits
shift_left(value, amount) == (value * 2 ^ amount) % WordSize
shift_right(value, amount) == value \div 2 ^ amount

arithmetic_shift_right(value, amount) ==
  IF get_bit(value, WordBits - 1)
  THEN shift_right(value, amount) + WordSize - 2 ^ (WordBits - amount)
  ELSE shift_right(value, amount)

(* kClearLeastSignificantBit: the bit a JALR target loses. *)
clear_least_significant_bit(value) == value - (value % 2)

zero_extend(value, bits) == value % 2 ^ bits
sign_extend(value, bits) ==
  LET narrowed == zero_extend(value, bits)
  IN  IF get_bit(narrowed, bits - 1) THEN narrowed + WordSize - 2 ^ bits ELSE narrowed
=============================================================================
