------------------------ MODULE CircularQueueProofs ------------------------
(***************************************************************************)
(* The array implements the queue for every capacity and every sequence of *)
(* calls.                                                                  *)
(***************************************************************************)
EXTENDS CircularQueue, SequenceTheorems, TLAPS

(* The tail is where the values end, once round at most: without it the    *)
(* size says how many values there are but not where the next one goes.    *)
Consistent(stored, first, behind, length) ==
  /\ stored \in [Index -> Value \cup {Blank}]
  /\ first \in Index /\ behind \in Index
  /\ length \in 0 .. Capacity
  /\ behind = IF first + length >= Capacity THEN first + length - Capacity
              ELSE first + length

IInv == Consistent(storage, head, tail, size)

(* The values from the first on. *)
Contents(stored, first, length) ==
  [i \in 1 .. length |-> stored[(first + i - 1) % Capacity]]

----------------------------------------------------------------------------
(* An index at most once round. *)
LEMMA Round ==
  ASSUME NEW i \in 0 .. 2 * Capacity - 1
  PROVE  i % Capacity = IF i >= Capacity THEN i - Capacity ELSE i
<1>1. Capacity \in Nat /\ Capacity > 0
  BY QueueAssumption
<1>2. CASE i < Capacity
  BY <1>1, <1>2
<1>3. CASE i >= Capacity
  <2>1. i - Capacity \in 0 .. Capacity - 1
    BY <1>1, <1>3
  <2>2. i = Capacity * 1 + (i - Capacity)
    BY <1>1, <1>3
  <2>3. i \div Capacity = 1
    BY <1>1, <2>1, <2>2
  <2> QED
    BY <1>1, <1>3, <2>1, <2>2, <2>3
<1> QED
  BY <1>1, <1>2, <1>3

LEMMA FollowingIndex ==
  ASSUME NEW i \in Index
  PROVE  (i + 1) % Capacity = IF i + 1 = Capacity THEN 0 ELSE i + 1
<1>1. Capacity \in Nat /\ Capacity > 0
  BY QueueAssumption
<1>2. i + 1 \in 0 .. 2 * Capacity - 1 /\ i + 1 <= Capacity
  BY <1>1 DEF Index
<1> QED
  BY <1>1, <1>2, Round

(* The values are a sequence. *)
LEMMA ContentsType ==
  ASSUME NEW stored, NEW first, NEW behind, NEW length,
         Consistent(stored, first, behind, length)
  PROVE  /\ Contents(stored, first, length) \in Seq(Value \cup {Blank})
         /\ Len(Contents(stored, first, length)) = length
         /\ Contents(stored, first, length) = <<>> <=> length = 0
<1>1. Capacity \in Nat /\ Capacity > 0
  BY QueueAssumption
<1>2. \A i \in 1 .. length : (first + i - 1) % Capacity \in Index
  BY <1>1 DEF Consistent, Index
<1>3. length \in Nat
  BY <1>1 DEF Consistent
<1>4. Contents(stored, first, length) \in [1 .. length -> Value \cup {Blank}]
  BY <1>2 DEF Contents, Consistent
<1>5. Contents(stored, first, length) \in Seq(Value \cup {Blank})
  BY <1>3, <1>4
<1> QED
  BY <1>3, <1>4, <1>5

(* front() and back() show the first and the last value. *)
LEMMA EndsAgree ==
  ASSUME NEW stored, NEW first, NEW behind, NEW length,
         Consistent(stored, first, behind, length)
  PROVE  ends(stored, first, behind, length) = Fifo!ends(Contents(stored, first, length))
<1> DEFINE q == Contents(stored, first, length)
<1>1. Capacity \in Nat /\ Capacity > 0
  BY QueueAssumption
<1>2. q \in Seq(Value \cup {Blank}) /\ Len(q) = length /\ (q = <<>> <=> length = 0)
  BY ContentsType
<1>3. CASE length = 0
  BY <1>2, <1>3 DEF ends, Fifo!ends
<1>4. CASE length # 0
  <2>1. first \in 0 .. Capacity - 1 /\ behind \in 0 .. Capacity - 1 /\ length \in 1 .. Capacity
    BY <1>1, <1>4 DEF Consistent, Index
  <2>2. q[1] = stored[first]
    <3>1. first \in 0 .. 2 * Capacity - 1 /\ first + 1 - 1 = first
      BY <1>1, <2>1
    <3>2. first % Capacity = first
      BY <1>1, <2>1, <3>1, Round
    <3> QED
      BY <2>1, <3>1, <3>2 DEF Contents
  <2>3. q[length] = stored[(behind + Capacity - 1) % Capacity]
    <3>1. first + length - 1 \in 0 .. 2 * Capacity - 1
          /\ behind + Capacity - 1 \in 0 .. 2 * Capacity - 1
      BY <1>1, <2>1
    <3>2. (first + length - 1) % Capacity = (behind + Capacity - 1) % Capacity
      <4>1. (first + length - 1) % Capacity =
              IF first + length - 1 >= Capacity THEN first + length - 1 - Capacity
              ELSE first + length - 1
        BY <1>1, <2>1, <3>1, Round
      <4>2. (behind + Capacity - 1) % Capacity =
              IF behind + Capacity - 1 >= Capacity THEN behind + Capacity - 1 - Capacity
              ELSE behind + Capacity - 1
        BY <1>1, <2>1, <3>1, Round
      <4> QED
        BY <1>1, <2>1, <4>1, <4>2 DEF Consistent
    <3> QED
      BY <2>1, <3>2 DEF Contents
  <2> QED
    BY <1>2, <1>4, <2>2, <2>3 DEF ends, Fifo!ends
<1> QED
  BY <1>3, <1>4

(* Writing at the tail appends. *)
Written(stored, i, v) == [stored EXCEPT ![i] = v]

LEMMA WritingAppends ==
  ASSUME NEW stored, NEW first, NEW behind, NEW length, NEW v \in Value,
         Consistent(stored, first, behind, length), length # Capacity,
         NEW written, written = Written(stored, behind, v)
  PROVE  /\ Consistent(written, first, (behind + 1) % Capacity, length + 1)
         /\ Contents(written, first, length + 1) = Append(Contents(stored, first, length), v)
<1> DEFINE q == Contents(stored, first, length)
<1>1. Capacity \in Nat /\ Capacity > 0
  BY QueueAssumption
<1>2. first \in 0 .. Capacity - 1 /\ behind \in 0 .. Capacity - 1 /\ length \in 0 .. Capacity - 1
  BY <1>1 DEF Consistent, Index
<1>3. Consistent(written, first, (behind + 1) % Capacity, length + 1)
  <2>1. (behind + 1) % Capacity = IF behind + 1 = Capacity THEN 0 ELSE behind + 1
    BY <1>2, FollowingIndex DEF Index
  <2>2. written \in [Index -> Value \cup {Blank}]
    BY DEF Consistent, Written
  <2> QED
    BY <1>1, <1>2, <2>1, <2>2 DEF Consistent, Index
<1>4. Contents(written, first, length + 1) = Append(q, v)
  <2>1. q \in Seq(Value \cup {Blank}) /\ Len(q) = length
    BY ContentsType
  <2>2. ASSUME NEW i \in 1 .. length + 1
        PROVE  (first + i - 1) % Capacity =
                 IF first + i - 1 >= Capacity THEN first + i - 1 - Capacity ELSE first + i - 1
    <3>1. first + i - 1 \in 0 .. 2 * Capacity - 1
      BY <1>1, <1>2
    <3> QED
      BY <1>1, <1>2, <3>1, Round
  <2>3. \A i \in 1 .. length : written[(first + i - 1) % Capacity] = stored[(first + i - 1) % Capacity]
    <3>1. \A i \in 1 .. length : (first + i - 1) % Capacity # behind
                                /\ (first + i - 1) % Capacity \in Index
      BY <1>1, <1>2, <2>2 DEF Consistent, Index
    <3> QED
      BY <3>1 DEF Consistent, Written
  <2>4. written[(first + (length + 1) - 1) % Capacity] = v
    <3>1. (first + (length + 1) - 1) % Capacity = behind
      BY <1>1, <1>2, <2>2 DEF Consistent
    <3> QED
      BY <1>2, <3>1 DEF Consistent, Index, Written
  <2>5. \A i \in 1 .. length + 1 :
           Contents(written, first, length + 1)[i] = Append(q, v)[i]
    <3>1. /\ \A i \in 1 .. length : Append(q, v)[i] = q[i]
          /\ Append(q, v)[length + 1] = v
      <4> HIDE DEF q
      <4> QED
        BY <2>1, AppendProperties
    <3>2. \A i \in 1 .. length :
             Contents(written, first, length + 1)[i] = stored[(first + i - 1) % Capacity]
      <4>1. \A i \in 1 .. length : i \in 1 .. length + 1
        BY <1>2
      <4>2. \A i \in 1 .. length + 1 :
               Contents(written, first, length + 1)[i] = written[(first + i - 1) % Capacity]
        BY DEF Contents
      <4> QED
        BY <2>3, <4>1, <4>2, Zenon
    <3>3. Contents(written, first, length + 1)[length + 1] = v
      BY <1>2, <2>4 DEF Contents
    <3>4. \A i \in 1 .. length : q[i] = stored[(first + i - 1) % Capacity]
      BY DEF Contents
    <3>5. \A i \in 1 .. length + 1 : i \in 1 .. length \/ i = length + 1
      BY <1>2
    <3> HIDE DEF q
    <3> QED
      BY <3>1, <3>2, <3>3, <3>4, <3>5, Zenon
  <2>6. Contents(written, first, length + 1) \in Seq(Value \cup {Blank})
        /\ Len(Contents(written, first, length + 1)) = length + 1
    BY <1>3, ContentsType
  <2>7. Append(q, v) \in Seq(Value \cup {Blank}) /\ Len(Append(q, v)) = length + 1
    BY <2>1
  <2> HIDE DEF q
  <2> QED
    BY <2>5, <2>6, <2>7, SeqEqual
<1> QED
  BY <1>3, <1>4

(* Moving the head on drops the first value. *)
LEMMA MovingTheHeadDrops ==
  ASSUME NEW stored, NEW first, NEW behind, NEW length,
         Consistent(stored, first, behind, length), length # 0
  PROVE  /\ Consistent(stored, (first + 1) % Capacity, behind, length - 1)
         /\ Contents(stored, (first + 1) % Capacity, length - 1)
              = Tail(Contents(stored, first, length))
<1> DEFINE second == (first + 1) % Capacity
           q == Contents(stored, first, length)
<1>1. Capacity \in Nat /\ Capacity > 0
  BY QueueAssumption
<1>2. first \in 0 .. Capacity - 1 /\ behind \in 0 .. Capacity - 1 /\ length \in 1 .. Capacity
  BY <1>1 DEF Consistent, Index
<1>3. second = IF first + 1 = Capacity THEN 0 ELSE first + 1
  BY <1>2, FollowingIndex DEF Index
<1>4. Consistent(stored, second, behind, length - 1)
  BY <1>1, <1>2, <1>3 DEF Consistent, Index
<1>5. Contents(stored, second, length - 1) = Tail(q)
  <2>1. q \in Seq(Value \cup {Blank}) /\ Len(q) = length
    BY ContentsType
  <2>2. \A i \in 1 .. length - 1 : (second + i - 1) % Capacity = (first + (i + 1) - 1) % Capacity
    <3> SUFFICES ASSUME NEW i \in 1 .. length - 1
                 PROVE  (second + i - 1) % Capacity = (first + (i + 1) - 1) % Capacity
      OBVIOUS
    <3>1. second + i - 1 \in 0 .. 2 * Capacity - 1 /\ first + (i + 1) - 1 \in 0 .. 2 * Capacity - 1
      BY <1>1, <1>2, <1>3
    <3>2. (second + i - 1) % Capacity =
            IF second + i - 1 >= Capacity THEN second + i - 1 - Capacity ELSE second + i - 1
      BY <1>1, <1>2, <1>3, <3>1, Round
    <3>3. (first + (i + 1) - 1) % Capacity =
            IF first + (i + 1) - 1 >= Capacity THEN first + (i + 1) - 1 - Capacity
            ELSE first + (i + 1) - 1
      BY <1>1, <1>2, <1>3, <3>1, Round
    <3> QED
      BY <1>1, <1>2, <1>3, <3>1, <3>2, <3>3
  <2>3. \A i \in 1 .. length - 1 : Contents(stored, second, length - 1)[i] = Tail(q)[i]
    BY <1>2, <2>1, <2>2 DEF Contents
  <2>4. Contents(stored, second, length - 1) \in Seq(Value \cup {Blank})
        /\ Len(Contents(stored, second, length - 1)) = length - 1
    BY <1>4, ContentsType
  <2>5. Tail(q) \in Seq(Value \cup {Blank}) /\ Len(Tail(q)) = length - 1
    BY <1>2, <2>1
  <2> HIDE DEF q, second
  <2> QED
    BY <2>3, <2>4, <2>5, SeqEqual
<1> QED
  BY <1>4, <1>5

----------------------------------------------------------------------------
LEMMA InitConsistent == Init => IInv
<1>1. Capacity \in Nat /\ Capacity > 0
  BY QueueAssumption
<1> QED
  BY <1>1 DEF Init, IInv, Consistent, Index

(* A call leaves the array consistent, and does to the values what the     *)
(* queue's operation of the same name does.                                *)
LEMMA PushStep ==
  ASSUME IInv, NEW v \in Value, push(v)
  PROVE  IInv' /\ Fifo!Push(v)
<1> DEFINE q == Contents(storage, head, size)
<1>1. q \in Seq(Value \cup {Blank}) /\ Len(q) = size
  BY ContentsType DEF IInv
<1>2. IInv' /\ q' = IF Len(q) = Capacity THEN q ELSE Append(q, v)
  <2>1. CASE full
    BY <1>1, <2>1 DEF push, full, IInv, Contents
  <2>2. CASE ~full
    <3>1. /\ storage' = Written(storage, tail, v) /\ head' = head
          /\ tail' = (tail + 1) % Capacity /\ size' = size + 1 /\ size # Capacity
      BY <2>2 DEF push, full, Written
    <3>2. /\ Consistent(storage', head, (tail + 1) % Capacity, size + 1)
          /\ Contents(storage', head, size + 1) = Append(q, v)
      BY <3>1, WritingAppends DEF IInv
    <3> QED
      BY <1>1, <3>1, <3>2 DEF IInv, Contents
  <2> QED
    BY <2>1, <2>2
<1>3. ends(storage', head', tail', size') = Fifo!ends(q')
  BY <1>2, EndsAgree DEF IInv
<1>4. answer' = [done |-> Len(q) < Capacity, ends |-> Fifo!ends(q')]
  <2>1. size \in 0 .. Capacity /\ Capacity \in Nat
    BY QueueAssumption DEF IInv, Consistent
  <2>2. CASE full
    <3>1. (Len(q) < Capacity) = FALSE
      BY <1>1, <2>1, <2>2 DEF full
    <3> QED
      BY <1>3, <2>2, <3>1 DEF push, full, Answer
  <2>3. CASE ~full
    <3>1. (Len(q) < Capacity) = TRUE
      BY <1>1, <2>1, <2>3 DEF full
    <3> QED
      BY <1>3, <2>3, <3>1 DEF push, full, Answer
  <2> QED
    BY <2>2, <2>3
<1> QED
  BY <1>2, <1>4 DEF Fifo!Push, Fifo!Answer, Contents

LEMMA PopStep ==
  ASSUME IInv, pop
  PROVE  IInv' /\ Fifo!Pop
<1> DEFINE q == Contents(storage, head, size)
<1>1. q \in Seq(Value \cup {Blank}) /\ Len(q) = size /\ (q = <<>> <=> size = 0)
  BY ContentsType DEF IInv
<1>2. IInv' /\ q' = IF q = <<>> THEN q ELSE Tail(q)
  <2>1. CASE empty
    BY <1>1, <2>1 DEF pop, empty, IInv, Contents
  <2>2. CASE ~empty
    BY <1>1, <2>2, MovingTheHeadDrops DEF pop, empty, IInv
  <2> QED
    BY <2>1, <2>2
<1>3. ends(storage', head', tail', size') = Fifo!ends(q')
  BY <1>2, EndsAgree DEF IInv
<1>4. answer' = [done |-> q # <<>>, ends |-> Fifo!ends(q')]
  <2>1. CASE empty
    <3>1. (q # <<>>) = FALSE
      BY <1>1, <2>1 DEF empty
    <3> QED
      BY <1>3, <2>1, <3>1 DEF pop, empty, Answer
  <2>2. CASE ~empty
    <3>1. (q # <<>>) = TRUE
      BY <1>1, <2>2 DEF empty
    <3> QED
      BY <1>3, <2>2, <3>1 DEF pop, empty, Answer
  <2> QED
    BY <2>1, <2>2
<1> QED
  BY <1>2, <1>4 DEF Fifo!Pop, Fifo!Answer, Contents

LEMMA ClearStep ==
  ASSUME IInv, clear
  PROVE  IInv' /\ Fifo!Clear
<1>1. Capacity \in Nat /\ Capacity > 0
  BY QueueAssumption
<1>2. IInv'
  BY <1>1 DEF clear, IInv, Consistent, Index
<1>3. Contents(storage', head', size') = <<>>
  BY <1>2, ContentsType DEF clear, IInv
<1>4. ends(storage', head', tail', size') = Fifo!ends(Contents(storage', head', size'))
  BY <1>2, EndsAgree DEF IInv
<1> QED
  BY <1>2, <1>3, <1>4 DEF clear, Answer, Fifo!Clear, Fifo!Answer, Contents

(* Every behaviour of the array is one of the queue (circular_queue.hpp:   *)
(* 47-67), for every capacity from 1 on.                                   *)
THEOREM ArrayIsFifo == Spec => IsFifo
<1>1. Init => Fifo!Init
  <2> SUFFICES ASSUME Init PROVE Fifo!Init
    OBVIOUS
  <2>1. Contents(storage, head, size) = <<>>
    BY InitConsistent, ContentsType DEF Init, IInv
  <2>2. ends(storage, head, tail, size) = Fifo!ends(Contents(storage, head, size))
    BY InitConsistent, EndsAgree DEF IInv
  <2> QED
    BY <2>1, <2>2 DEF Init, Fifo!Init, Contents
<1>2. IInv /\ [Next]_vars => IInv' /\ [Fifo!Next]_<<[i \in 1 .. size |-> storage[(head + i - 1) % Capacity]], answer>>
  <2> SUFFICES ASSUME IInv, [Next]_vars
               PROVE  IInv' /\ [Fifo!Next]_<<[i \in 1 .. size |-> storage[(head + i - 1) % Capacity]], answer>>
    OBVIOUS
  <2>1. ASSUME NEW v \in Value, push(v) PROVE IInv' /\ Fifo!Next
    BY <2>1, PushStep DEF Fifo!Next
  <2>2. CASE pop
    BY <2>2, PopStep DEF Fifo!Next
  <2>3. CASE clear
    BY <2>3, ClearStep DEF Fifo!Next
  <2>4. CASE UNCHANGED vars
    BY <2>4 DEF vars, IInv
  <2> QED
    BY <2>1, <2>2, <2>3, <2>4 DEF Next
<1> QED
  BY <1>1, <1>2, InitConsistent, PTL DEF Spec, IsFifo, Fifo!Spec
============================================================================
