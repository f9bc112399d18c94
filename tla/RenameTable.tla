---------------------------- MODULE RenameTable ----------------------------
(***************************************************************************)
(* The register alias table (tomasulo/rename_table.cpp): for each register *)
(* the tag of its youngest uncommitted producer.                           *)
(***************************************************************************)
EXTENDS Instruction

VARIABLE cur_table   \* register -> tag of its producer, or None

RATWrite == [rd : RegisterIndex, tag : RobTag]

invalidated == [r \in RegisterIndex |-> None]

Init == cur_table = invalidated

reset == cur_table' = invalidated

lookup(r) == IF r = 0 THEN None ELSE cur_table[r]

clear_any_tag(table, commit) ==
  IF commit = None \/ commit.rd = 0 THEN table ELSE [table EXCEPT ![commit.rd] = None]
(* A commit clears the mapping only if no younger writer has taken it. *)
clear_committed(table, commit) ==
  IF commit = None \/ commit.rd = 0 \/ table[commit.rd] # commit.tag THEN table
  ELSE [table EXCEPT ![commit.rd] = None]

set_producer(table, write) ==
  IF write = None \/ write.rd = 0 THEN table
  ELSE [table EXCEPT ![write.rd] = write.tag]

(* The older instruction's commit first, then the younger one's issue. *)
apply(issue_write, commit, flush) ==
  cur_table' = IF flush THEN invalidated
               ELSE set_producer(clear_committed(cur_table, commit), issue_write)
============================================================================
