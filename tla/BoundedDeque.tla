---------------------------- MODULE BoundedDeque ----------------------------
(* What deque.h promises: a double-ended queue of at most Capacity values. *)
(* A push on a full queue is dropped; a pop of an empty one returns -1.    *)
EXTENDS Integers, Sequences

CONSTANTS Capacity, Values
VARIABLES queue, ret   \* the values from front to back; what the last pop returned

DInit == queue = <<>> /\ ret = -1

Keep == Len(queue) = Capacity /\ UNCHANGED <<queue, ret>>
DPushBack(x) == Keep \/ (Len(queue) < Capacity /\ queue' = Append(queue, x) /\ UNCHANGED ret)
DPushFront(x) == Keep \/ (Len(queue) < Capacity /\ queue' = <<x>> \o queue /\ UNCHANGED ret)
DPopFront ==
  IF queue = <<>> THEN ret' = -1 /\ UNCHANGED queue
  ELSE ret' = Head(queue) /\ queue' = Tail(queue)
DPopBack ==
  IF queue = <<>> THEN ret' = -1 /\ UNCHANGED queue
  ELSE ret' = queue[Len(queue)] /\ queue' = SubSeq(queue, 1, Len(queue) - 1)
DReset == queue' = <<>> /\ UNCHANGED ret

DNext ==
  \/ \E x \in Values : DPushBack(x) \/ DPushFront(x)
  \/ DPopFront \/ DPopBack \/ DReset
DSpec == DInit /\ [][DNext]_<<queue, ret>>
=============================================================================
