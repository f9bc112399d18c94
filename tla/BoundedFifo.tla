---------------------------- MODULE BoundedFifo ----------------------------
(***************************************************************************)
(* A first-in first-out queue of at most Capacity values, and what each    *)
(* call answers: whether it did something, and which values are then at    *)
(* the two ends.                                                           *)
(***************************************************************************)
EXTENDS Naturals, Sequences

CONSTANTS Value, Capacity, None

VARIABLES queue, answer

ends(q) ==
  IF q = <<>> THEN [front |-> None, back |-> None]
  ELSE [front |-> q[1], back |-> q[Len(q)]]

Answer(done) == answer' = [done |-> done, ends |-> ends(queue')]

Init == queue = <<>> /\ answer = [done |-> TRUE, ends |-> ends(<<>>)]

Push(v) ==
  /\ queue' = IF Len(queue) = Capacity THEN queue ELSE Append(queue, v)
  /\ Answer(Len(queue) < Capacity)

Pop ==
  /\ queue' = IF queue = <<>> THEN queue ELSE Tail(queue)
  /\ Answer(queue # <<>>)

Clear == queue' = <<>> /\ Answer(TRUE)

Next == (\E v \in Value : Push(v)) \/ Pop \/ Clear

Spec == Init /\ [][Next]_<<queue, answer>>
============================================================================
