-------------------------------- MODULE Deque --------------------------------
(***************************************************************************)
(* deque.c: a double-ended queue in a circular buffer.  The masks          *)
(* "& (max_size - 1)" of non-negative numbers are remainders, max_size     *)
(* being a power of two.                                                   *)
(***************************************************************************)
EXTENDS Integers, Sequences

CONSTANTS max_size, Values

\* deque_init takes the exponent of a power of two, up to 10
ASSUME DequeAssumption ==
  /\ max_size \in {1, 2, 4, 8, 16, 32, 64, 128, 256, 512, 1024}
  /\ Values \subseteq Int

VARIABLES size, front, back, buf, ret
vars == <<size, front, back, buf, ret>>

Index == 0 .. (max_size - 1)
Next1(i) == (i + 1) % max_size
Prev1(i) == (i + max_size - 1) % max_size
IsFull == size = max_size
IsEmpty == size = 0
ValueAtBack == buf[back]  \* faulty: back is the slot after the last value
BackValue == buf[Prev1(back)]

Init ==
  /\ size = 0 /\ front = 0 /\ back = 0
  /\ buf = [i \in Index |-> 0]
  /\ ret = -1

PushBack(x) ==
  IF IsFull THEN UNCHANGED vars
  ELSE /\ buf' = [buf EXCEPT ![back] = x]
       /\ back' = Next1(back)
       /\ size' = size + 1
       /\ UNCHANGED <<front, ret>>

PopBack ==
  IF IsEmpty THEN ret' = -1 /\ UNCHANGED <<size, front, back, buf>>
  ELSE /\ ret' = BackValue
       /\ back' = Prev1(back)
       /\ size' = size - 1
       /\ UNCHANGED <<front, buf>>

PushFront(x) ==
  IF IsFull THEN UNCHANGED vars
  ELSE /\ front' = Prev1(front)
       /\ buf' = [buf EXCEPT ![Prev1(front)] = x]
       /\ size' = size + 1
       /\ UNCHANGED <<back, ret>>

PopFront ==
  IF IsEmpty THEN ret' = -1 /\ UNCHANGED <<size, front, back, buf>>
  ELSE /\ ret' = buf[front]
       /\ front' = Next1(front)
       /\ size' = size - 1
       /\ UNCHANGED <<back, buf>>

Reset == size' = 0 /\ front' = 0 /\ back' = 0 /\ UNCHANGED <<buf, ret>>

Next ==
  \/ \E x \in Values : PushBack(x) \/ PushFront(x)
  \/ PopFront \/ PopBack \/ Reset
Spec == Init /\ [][Next]_vars

\* deque_itr_get, on an iterator that has moved on i times from deque_begin
ItrGet(i) == buf[(front + i) % max_size]

-----------------------------------------------------------------------------
(* Properties                                                              *)

\* Every variable has its type, and size is the distance from front to back.
TypeOK ==
  /\ size \in 0 .. max_size
  /\ front \in Index /\ back \in Index
  /\ buf \in [Index -> Values \cup {0}]
  /\ ret \in Values \cup {-1, 0}
  /\ (front + size) % max_size = back

\* The values from front to back, as an iteration of size steps sees them
Contents == [i \in 1 .. size |-> ItrGet(i - 1)]

\* The circular buffer is a double-ended queue: each operation does to its
\* contents what the abstract one does, through every wrap-around, and returns
\* the same value.
D == INSTANCE BoundedDeque WITH Capacity <- max_size, queue <- Contents
Refines == D!DSpec
=============================================================================
