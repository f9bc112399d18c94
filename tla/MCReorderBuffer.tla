--------------------------- MODULE MCReorderBuffer ---------------------------
(***************************************************************************)
(* The reorder buffer driven by every sequence of calls over few           *)
(* operations and addresses.  Only what commit and recovery look at is     *)
(* varied: the operation, the predicted and actual next address, the tags. *)
(***************************************************************************)
EXTENDS ReorderBuffer

CONSTANTS Operations, Targets

entry_of(tag, op, target) ==
  [tag |-> tag, op |-> op, pc |-> 0, rd |-> 0, value |-> 0, writes_rd |-> FALSE,
   ready |-> op = "HALT", predicted_next_pc |-> target, actual_next_pc |-> 0,
   branch_taken |-> FALSE]

(* The tags a caller may present: the right one, a stale one, none. *)
IssueEntries ==
  {entry_of(tag, op, target) : tag \in RobTag, op \in Operations, target \in Targets}

Completions ==
  {[tag |-> tag, result |-> 0, actual_next_pc |-> target, branch_taken |-> FALSE,
    has_control_result |-> TRUE] : tag \in RobTag, target \in Targets}

issue_step == \E issue_entry \in Maybe(IssueEntries) : apply(issue_entry, None, None)

complete_step ==
  \E completion \in Maybe(Completions), store_completion \in Maybe(RobTag) :
    apply(None, completion, store_completion)

(* Everything in the same cycle, with the tag the ring expects. *)
busy_step ==
  \E op \in Operations, target \in Targets, completion \in Completions :
    next_tag # None /\ apply(entry_of(next_tag, op, target), completion, None)

MCNext == issue_step \/ complete_step \/ busy_step \/ reset

MCSpec == Init /\ [][MCNext]_robVars
=============================================================================
