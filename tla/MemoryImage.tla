---------------------------- MODULE MemoryImage ----------------------------
(***************************************************************************)
(* The byte array of memory/image.cpp and its bounds-checked accesses.     *)
(* Words are little-endian and may be misaligned.                          *)
(***************************************************************************)
EXTENDS WordArithmetic

CONSTANT MemorySize   \* kMemorySize (2^20 bytes)

BYTE == 1
HALF == 2
WORD == 4
MemoryWidth == {BYTE, HALF, WORD}

Image == [0 .. MemorySize - 1 -> Byte]

(* Every byte of the image has an address; not every address has a byte. *)
ASSUME MemoryImageAssumption == MemorySize \in 1 .. WordSize

in_bounds(address, width) == width <= MemorySize /\ address <= MemorySize - width

(* The value of width bytes at an address, None when one is out of bounds. *)
read(image, address, width) ==
  LET byte(i) == IF i < width THEN image[address + i] * ByteSize ^ i ELSE 0
  IN  IF ~in_bounds(address, width) THEN None
      ELSE byte(0) + byte(1) + byte(2) + byte(3)

write(image, address, width, value) ==
  [a \in DOMAIN image |->
     IF a \in address .. address + width - 1
     THEN (value \div ByteSize ^ (a - address)) % ByteSize
     ELSE image[a]]
============================================================================
