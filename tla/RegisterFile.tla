---------------------------- MODULE RegisterFile ----------------------------
(***************************************************************************)
(* The architectural registers (tomasulo/register_file.cpp), written once  *)
(* per cycle by the commit stage.  x0 reads as 0 and is never written.     *)
(***************************************************************************)
EXTENDS Instruction

VARIABLE register   \* register_

RegisterWrite == [rd : RegisterIndex, value : Word]

Init == register = [r \in RegisterIndex |-> 0]

registers_survive == UNCHANGED register
reset == register' = [r \in RegisterIndex |-> 0]

(* apply() drops a write to x0; latch() performs the others. *)
apply(write) ==
  register' = IF write = None \/ write.rd = 0 THEN register
              ELSE [register EXCEPT ![write.rd] = write.value]
=============================================================================
