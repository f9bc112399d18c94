---------------------------- MODULE InOrderQueue ----------------------------
(***************************************************************************)
(* What the rest of the CPU relies on the reorder buffer for: a bounded    *)
(* queue of distinct tags.  In one cycle the oldest may leave, one may     *)
(* join behind the youngest, or all of them may go.                        *)
(***************************************************************************)
EXTENDS Naturals, Sequences

CONSTANTS Tag, Capacity

VARIABLE queue

elements(q) == {q[i] : i \in DOMAIN q}

Init == queue = <<>>

(* What is left when the oldest leaves or nobody does. *)
Remainders == {queue} \cup {Tail(q) : q \in {queue} \ {<<>>}}

Leave == queue' \in Remainders

Join ==
  /\ Len(queue) < Capacity
  /\ \E tag \in Tag \ elements(queue), rest \in Remainders : queue' = Append(rest, tag)

Clear == queue' = <<>>

Next == Leave \/ Join \/ Clear

Spec == Init /\ [][Next]_queue
=============================================================================
