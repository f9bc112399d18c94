--------------------------- MODULE CircularQueue ---------------------------
(***************************************************************************)
(* CircularQueue<T, Capacity> (common/circular_queue.hpp): a queue in an   *)
(* array that is never cleared, between a head and a tail that go round.   *)
(***************************************************************************)
EXTENDS Naturals, Sequences

CONSTANTS
  Value,      \* T
  Capacity,
  Blank,      \* T{}, what the array holds at first
  None        \* no answer: front() and back() assert that there is one

ASSUME QueueAssumption == Capacity \in Nat \ {0}

VARIABLES
  storage, head, tail, size,
  answer      \* what the latest call returned, and the two ends after it

vars == <<storage, head, tail, size, answer>>

Index == 0 .. Capacity - 1

(* The two ends, by the index arithmetic of front() and back(). *)
ends(stored, first, behind, length) ==
  IF length = 0 THEN [front |-> None, back |-> None]
  ELSE [front |-> stored[first], back |-> stored[(behind + Capacity - 1) % Capacity]]

Answer(done) ==
  answer' = [done |-> done, ends |-> ends(storage', head', tail', size')]

Init ==
  /\ storage = [i \in Index |-> Blank]
  /\ head = 0 /\ tail = 0 /\ size = 0
  /\ answer = [done |-> TRUE, ends |-> ends(storage, head, tail, size)]

empty == size = 0

full == size = Capacity

push(v) ==
  \/ /\ full
     /\ UNCHANGED <<storage, head, tail, size>>
     /\ Answer(FALSE)
  \/ /\ ~full
     /\ storage' = [storage EXCEPT ![tail] = v]
     /\ tail' = (tail + 1) % Capacity
     /\ size' = size + 1
     /\ UNCHANGED head
     /\ Answer(TRUE)

pop ==
  \/ /\ empty
     /\ UNCHANGED <<storage, head, tail, size>>
     /\ Answer(FALSE)
  \/ /\ ~empty
     /\ head' = (head + 1) % Capacity
     /\ size' = size - 1
     /\ UNCHANGED <<storage, tail>>
     /\ Answer(TRUE)

clear_size == size' = 0 /\ UNCHANGED <<storage, head, tail>> /\ Answer(TRUE)
clear ==
  /\ head' = 0 /\ tail' = 0 /\ size' = 0
  /\ UNCHANGED storage
  /\ Answer(TRUE)

Next == (\E v \in Value : push(v)) \/ pop \/ clear

Spec == Init /\ [][Next]_vars

----------------------------------------------------------------------------
(* Whatever the order of calls, however often the indices have gone round  *)
(* and whatever clear() (circular_queue.hpp:64) has left in the array, the *)
(* queue accepts a value exactly when there is room, gives the values back *)
(* in the order they came, and shows the right ones at its two ends; at    *)
(* capacity 1 the head and the tail always meet (queue_test.cpp:68).       *)
Fifo == INSTANCE BoundedFifo WITH
          queue <- [i \in 1 .. size |-> storage[(head + i - 1) % Capacity]]
IsFifo == Fifo!Spec
============================================================================
