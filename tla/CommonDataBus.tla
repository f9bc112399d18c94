--------------------------- MODULE CommonDataBus ---------------------------
(***************************************************************************)
(* The arbiter of the single result bus (tomasulo/common_data_bus.cpp):    *)
(* one of the two producers' results is broadcast each cycle, and the      *)
(* producer that lost goes first the next time.                            *)
(***************************************************************************)
EXTENDS Instruction

VARIABLE prefer_load

Init == prefer_load = FALSE

reset == prefer_load' = FALSE

(* plan(): who gets the bus, given the two candidates (or None). *)
load_granted(integer_result, load_result) ==
  load_result # None /\ (integer_result = None \/ prefer_load)

integer_granted(integer_result, load_result) ==
  integer_result # None /\ (load_result = None \/ ~prefer_load)

completion(integer_result, load_result) ==
  CASE load_granted(integer_result, load_result) -> load_result
    [] integer_granted(integer_result, load_result) -> integer_result
    [] OTHER -> None

broadcast(integer_result, load_result) ==
  LET result == completion(integer_result, load_result)
  IN  IF result = None THEN None ELSE [tag |-> result.tag, value |-> result.result]

keep_preference(integer_result, load_result) == prefer_load
next_prefer_load(integer_result, load_result) ==
  IF completion(integer_result, load_result) = None THEN prefer_load
  ELSE integer_granted(integer_result, load_result)

apply(integer_result, load_result) ==
  prefer_load' = next_prefer_load(integer_result, load_result)
============================================================================
