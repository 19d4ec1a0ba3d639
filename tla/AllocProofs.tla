---------------------------- MODULE AllocProofs ----------------------------
(***************************************************************************)
(* The circular buffer of deque.c implements a double-ended queue, for     *)
(* every capacity that deque_init allows and every set of values. The slab *)
(* allocator of task descriptors and the stack allocator implement the set *)
(* of descriptors that the kernel is written on, for any number and size   *)
(* of slabs.  The binary heap of priority-queue.c implements a priority    *)
(* queue, for any capacity that its indices allow.                         *)
(***************************************************************************)
EXTENDS Deque, PriorityQueue, TaskAlloc, ListLemmas, FiniteSetTheorems

-----------------------------------------------------------------------------
(* Arithmetic of the circular buffer                                       *)

\* The remainder of a sum of two indices, without division.
LEMMA Mod ==
  ASSUME NEW x \in 0 .. (2 * max_size)
  PROVE  x % max_size = IF x < max_size THEN x
                        ELSE IF x < 2 * max_size THEN x - max_size ELSE 0
  BY DequeAssumption

\* One slot on, and one back, around the end of the buffer.
LEMMA Steps ==
  ASSUME NEW i \in Index
  PROVE  /\ Next1(i) \in Index /\ Prev1(i) \in Index
         /\ Next1(i) = IF i = max_size - 1 THEN 0 ELSE i + 1
         /\ Prev1(i) = IF i = 0 THEN max_size - 1 ELSE i - 1
  BY DequeAssumption DEF Index, Next1, Prev1

\* The slot of the i-th value of a queue whose first value is in slot f.
Slot(f, i) == (f + i) % max_size

\* It is in the buffer, at most once around it.
LEMMA SlotValue ==
  ASSUME NEW f \in Index, NEW i \in 0 .. max_size
  PROVE  /\ Slot(f, i) = IF f + i < max_size THEN f + i ELSE f + i - max_size
         /\ Slot(f, i) \in Index
  <1>1. f + i \in 0 .. (2 * max_size) /\ f + i < 2 * max_size
    BY DequeAssumption DEF Index
  <1> QED  BY <1>1, Mod, DequeAssumption DEF Index, Slot


\* The first value is at the front.
LEMMA SlotZero ==
  ASSUME NEW f \in Index
  PROVE  Slot(f, 0) = f
  BY DequeAssumption DEF Index, Slot

\* Moving the front by one and counting one more, or less, reach the same slot.
LEMMA SlotSteps ==
  ASSUME NEW f \in Index, NEW i \in 0 .. (max_size - 1)
  PROVE  /\ Slot(f, i + 1) = Next1(Slot(f, i))
         /\ Slot(Next1(f), i) = Slot(f, i + 1)
         /\ Slot(Prev1(f), i + 1) = Slot(f, i)
         /\ Prev1(Slot(f, i + 1)) = Slot(f, i)
  <1>1. /\ Slot(f, i) = IF f + i < max_size THEN f + i ELSE f + i - max_size
        /\ Slot(f, i) \in Index
    BY SlotValue, DequeAssumption
  <1>2. /\ Slot(f, i + 1) = IF f + i + 1 < max_size THEN f + i + 1 ELSE f + i + 1 - max_size
        /\ Slot(f, i + 1) \in Index
    <2>1. i + 1 \in 0 .. max_size
      BY DequeAssumption
    <2>2. /\ Slot(f, i + 1) = IF f + (i + 1) < max_size THEN f + (i + 1) ELSE f + (i + 1) - max_size
          /\ Slot(f, i + 1) \in Index
      BY <2>1, SlotValue
    <2> QED  BY <2>2, DequeAssumption DEF Index
  <1>3. /\ Next1(f) \in Index /\ Prev1(f) \in Index
        /\ Next1(f) = IF f = max_size - 1 THEN 0 ELSE f + 1
        /\ Prev1(f) = IF f = 0 THEN max_size - 1 ELSE f - 1
    BY Steps
  <1>4. Next1(Slot(f, i)) = IF Slot(f, i) = max_size - 1 THEN 0 ELSE Slot(f, i) + 1
    BY <1>1, Steps
  <1>5. Prev1(Slot(f, i + 1)) = IF Slot(f, i + 1) = 0 THEN max_size - 1 ELSE Slot(f, i + 1) - 1
    BY <1>2, Steps
  <1>6. Slot(Next1(f), i) = IF Next1(f) + i < max_size THEN Next1(f) + i ELSE Next1(f) + i - max_size
    BY <1>3, SlotValue, DequeAssumption
  <1>7. Slot(Prev1(f), i + 1) = IF Prev1(f) + i + 1 < max_size THEN Prev1(f) + i + 1
                                ELSE Prev1(f) + i + 1 - max_size
    <2>1. i + 1 \in 0 .. max_size
      BY DequeAssumption
    <2>2. Slot(Prev1(f), i + 1) = IF Prev1(f) + (i + 1) < max_size THEN Prev1(f) + (i + 1)
                                  ELSE Prev1(f) + (i + 1) - max_size
      BY <1>3, <2>1, SlotValue
    <2> QED  BY <1>3, <2>2, DequeAssumption DEF Index
  <1> QED  BY <1>1, <1>2, <1>3, <1>4, <1>5, <1>6, <1>7, DequeAssumption DEF Index

\* Different values are in different slots.
LEMMA SlotsDiffer ==
  ASSUME NEW f \in Index, NEW i \in 0 .. (max_size - 1), NEW j \in 0 .. (max_size - 1), i # j
  PROVE  Slot(f, i) # Slot(f, j)
  <1>1. Slot(f, i) = IF f + i < max_size THEN f + i ELSE f + i - max_size
    BY SlotValue, DequeAssumption
  <1>2. Slot(f, j) = IF f + j < max_size THEN f + j ELSE f + j - max_size
    BY SlotValue, DequeAssumption
  <1> QED  BY <1>1, <1>2, DequeAssumption DEF Index

-----------------------------------------------------------------------------
(* The type invariant, with size the distance from front to back           *)

\* Every operation of deque.c keeps the indices in the buffer and the size equal
\* to the distance between them, through every wrap-around.
THEOREM TypeCorrect == Spec => []TypeOK
  <1>1. Init => TypeOK
    <2> SUFFICES ASSUME Init PROVE TypeOK
      OBVIOUS
    <2>1. Slot(0, 0) = 0 /\ 0 \in Index
      BY SlotValue, DequeAssumption DEF Index
    <2> QED  BY <2>1, DequeAssumption DEF Init, TypeOK, Slot
  <1>2. TypeOK /\ [Next]_vars => TypeOK'
    <2> SUFFICES ASSUME TypeOK, [Next]_vars PROVE TypeOK'
      OBVIOUS
    <2> USE DequeAssumption
    <2>0. /\ front \in Index /\ back \in Index /\ size \in 0 .. max_size
          /\ back = Slot(front, size)
      BY DEF TypeOK, Slot
    <2>1. ASSUME NEW x \in Values, PushBack(x) PROVE TypeOK'
      <3>1. CASE IsFull
        BY <2>1, <3>1 DEF PushBack, TypeOK, vars
      <3>2. CASE ~IsFull
        <4>1. size + 1 \in 0 .. max_size
          BY <2>0, <3>2 DEF IsFull
        <4>2. Slot(front, size + 1) = Next1(back)
          BY <2>0, <3>2, SlotSteps DEF IsFull
        <4> QED  BY <2>0, <2>1, <3>2, <4>1, <4>2, Steps DEF PushBack, TypeOK, Slot
      <3> QED  BY <3>1, <3>2
    <2>2. ASSUME NEW x \in Values, PushFront(x) PROVE TypeOK'
      <3>1. CASE IsFull
        BY <2>2, <3>1 DEF PushFront, TypeOK, vars
      <3>2. CASE ~IsFull
        <4>1. size + 1 \in 0 .. max_size
          BY <2>0, <3>2 DEF IsFull
        <4>2. Slot(Prev1(front), size + 1) = back
          BY <2>0, <3>2, SlotSteps DEF IsFull
        <4> QED  BY <2>0, <2>2, <3>2, <4>1, <4>2, Steps DEF PushFront, TypeOK, Slot
      <3> QED  BY <3>1, <3>2
    <2>3. CASE PopFront
      <3>1. CASE IsEmpty
        BY <2>3, <3>1 DEF PopFront, TypeOK
      <3>2. CASE ~IsEmpty
        <4>1. size - 1 \in 0 .. max_size
          BY <2>0, <3>2 DEF IsEmpty
        <4>2. Slot(Next1(front), size - 1) = back
          <5>1. /\ size - 1 \in 0 .. (max_size - 1)
                /\ (size - 1) + 1 = size
            BY <2>0, <3>2 DEF IsEmpty
          <5> QED  BY <2>0, <5>1, SlotSteps
        <4> QED  BY <2>0, <2>3, <3>2, <4>1, <4>2, Steps DEF PopFront, TypeOK, Slot
      <3> QED  BY <3>1, <3>2
    <2>4. CASE PopBack
      <3>1. CASE IsEmpty
        BY <2>4, <3>1 DEF PopBack, TypeOK
      <3>2. CASE ~IsEmpty
        <4>1. size - 1 \in 0 .. max_size
          BY <2>0, <3>2 DEF IsEmpty
        <4>2. Slot(front, size - 1) = Prev1(back)
          <5>1. /\ size - 1 \in 0 .. (max_size - 1)
                /\ (size - 1) + 1 = size
            BY <2>0, <3>2 DEF IsEmpty
          <5> QED  BY <2>0, <5>1, SlotSteps
        <4> QED  BY <2>0, <2>4, <3>2, <4>1, <4>2, Steps DEF PopBack, TypeOK, Slot, BackValue
      <3> QED  BY <3>1, <3>2
    <2>5. CASE Reset
      <3>1. Slot(0, 0) = 0 /\ 0 \in Index
        BY SlotValue DEF Index
      <3> QED  BY <2>5, <3>1 DEF Reset, TypeOK, Slot
    <2>6. CASE UNCHANGED vars
      BY <2>6 DEF vars, TypeOK
    <2> QED  BY <2>1, <2>2, <2>3, <2>4, <2>5, <2>6 DEF Next
  <1> QED  BY <1>1, <1>2, PTL DEF Spec

-----------------------------------------------------------------------------
(* The refinement                                                          *)

\* What the type invariant says of the values from front to back.
LEMMA ContentsFacts ==
  ASSUME TypeOK
  PROVE  /\ Contents \in Seq(Values \cup {0})
         /\ Len(Contents) = size
         /\ \A i \in 1 .. size : Contents[i] = buf[Slot(front, i - 1)]
         /\ front \in Index /\ back \in Index /\ size \in 0 .. max_size
         /\ back = Slot(front, size)
         /\ \A i \in Index : buf[i] \in Values \cup {0}
  <1>1. /\ front \in Index /\ back \in Index /\ size \in 0 .. max_size
        /\ back = Slot(front, size)
        /\ \A i \in Index : buf[i] \in Values \cup {0}
    BY DEF TypeOK, Slot
  <1>2. \A i \in 1 .. size : Slot(front, i - 1) \in Index
    BY <1>1, SlotValue, DequeAssumption
  <1>3. Contents = [i \in 1 .. size |-> buf[Slot(front, i - 1)]]
    BY DEF Contents, ItrGet, Slot
  <1> QED  BY <1>1, <1>2, <1>3, DequeAssumption

\* The circular buffer implements the bounded double-ended queue: every push,
\* pop and reset of deque.c does to the values between front and back what it
\* does to a queue, and returns the same value, for every capacity.
THEOREM Implements == Spec => Refines
  <1>1. Init => D!DInit
    BY DequeAssumption DEF Init, D!DInit, Contents
  <1>2. ASSUME TypeOK, TypeOK', [Next]_vars
        PROVE  [D!DNext]_<<Contents, ret>>
    <2> USE DequeAssumption
    <2>0. /\ Contents \in Seq(Values \cup {0}) /\ Len(Contents) = size
          /\ \A i \in 1 .. size : Contents[i] = buf[Slot(front, i - 1)]
          /\ front \in Index /\ back \in Index /\ size \in 0 .. max_size
          /\ back = Slot(front, size)
          /\ \A i \in Index : buf[i] \in Values \cup {0}
      BY <1>2, ContentsFacts
    <2>00. /\ Contents' \in Seq(Values \cup {0}) /\ Len(Contents)' = size'
           /\ \A i \in 1 .. size' : Contents'[i] = buf'[Slot(front', i - 1)]
      <3>1. /\ (Contents \in Seq(Values \cup {0}))' /\ (Len(Contents) = size)'
            /\ (\A i \in 1 .. size : Contents[i] = buf[Slot(front, i - 1)])'
        BY <1>2, ContentsFacts, PTL
      <3> QED  BY <3>1 DEF Slot
    <2>1. ASSUME NEW x \in Values, PushBack(x) PROVE D!DPushBack(x)
      <3>1. CASE IsFull
        BY <2>0, <2>1, <3>1 DEF PushBack, vars, IsFull, D!DPushBack, D!Keep, Contents, ItrGet
      <3>2. CASE ~IsFull
        <4>1. /\ size < max_size /\ size' = size + 1 /\ front' = front /\ ret' = ret
              /\ buf' = [buf EXCEPT ![back] = x]
          BY <2>0, <2>1, <3>2 DEF PushBack, IsFull
        <4>2. ASSUME NEW i \in 1 .. size PROVE Contents'[i] = Contents[i]
          <5>1. Slot(front, i - 1) \in Index /\ Slot(front, i - 1) # back
            BY <2>0, <4>1, SlotValue, SlotsDiffer
          <5> QED  BY <2>0, <2>00, <4>1, <5>1, SMTT(60) DEF TypeOK, Index
        <4>3. Contents'[size + 1] = x
          BY <1>2, <2>0, <2>00, <4>1 DEF TypeOK
        <4>4. Contents' = Append(Contents, x)
          BY <2>0, <2>00, <4>1, <4>2, <4>3
        <4> QED  BY <2>0, <4>1, <4>4 DEF D!DPushBack
      <3> QED  BY <3>1, <3>2
    <2>2. ASSUME NEW x \in Values, PushFront(x) PROVE D!DPushFront(x)
      <3>1. CASE IsFull
        BY <2>0, <2>2, <3>1 DEF PushFront, vars, IsFull, D!DPushFront, D!Keep, Contents, ItrGet
      <3>2. CASE ~IsFull
        <4>1. /\ size < max_size /\ size' = size + 1 /\ front' = Prev1(front) /\ ret' = ret
              /\ buf' = [buf EXCEPT ![Prev1(front)] = x]
          BY <2>0, <2>2, <3>2 DEF PushFront, IsFull
        <4>2. ASSUME NEW i \in 1 .. size PROVE Contents'[i + 1] = Contents[i]
          <5>1. Slot(Prev1(front), i) = Slot(front, i - 1)
            BY <2>0, <4>1, SlotSteps
          <5>2. Slot(front, i - 1) \in Index /\ Prev1(front) \in Index
            BY <2>0, SlotValue, Steps
          <5>3. Slot(Prev1(front), 0) = Prev1(front)
            BY <5>2, SlotZero
          <5>4. Slot(Prev1(front), i) # Slot(Prev1(front), 0)
            BY <2>0, <4>1, <5>2, SlotsDiffer
          <5> QED  BY <1>2, <2>0, <2>00, <4>1, <5>1, <5>2, <5>3, <5>4 DEF TypeOK
        <4>3. Contents'[1] = x
          <5>1. Prev1(front) \in Index /\ Slot(Prev1(front), 0) = Prev1(front)
            <6>1. Prev1(front) \in Index
              BY <2>0, Steps
            <6> QED  BY <6>1, SlotZero
          <5> QED  BY <1>2, <2>0, <2>00, <4>1, <5>1 DEF TypeOK
        <4>4. Contents' = <<x>> \o Contents
          BY <2>0, <2>00, <4>1, <4>2, <4>3
        <4> QED  BY <2>0, <4>1, <4>4 DEF D!DPushFront
      <3> QED  BY <3>1, <3>2
    <2>3. ASSUME PopFront PROVE D!DPopFront
      <3>1. CASE IsEmpty
        BY <2>0, <2>3, <3>1 DEF PopFront, IsEmpty, D!DPopFront, Contents, ItrGet
      <3>2. CASE ~IsEmpty
        <4>1. /\ size > 0 /\ size' = size - 1 /\ front' = Next1(front)
              /\ buf' = buf /\ ret' = buf[front]
          BY <2>0, <2>3, <3>2 DEF PopFront, IsEmpty
        <4>2. ASSUME NEW i \in 1 .. (size - 1) PROVE Contents'[i] = Contents[i + 1]
          <5>1. Slot(Next1(front), i - 1) = Slot(front, i)
            <6>1. i - 1 \in 0 .. (max_size - 1) /\ (i - 1) + 1 = i
              BY <2>0
            <6> QED  BY <2>0, <6>1, SlotSteps
          <5> QED  BY <2>0, <2>00, <4>1, <5>1, SMTT(60)
        <4>3. Contents[1] = buf[front]
          BY <2>0, <4>1, SlotZero
        <4>4. Contents' = Tail(Contents) /\ Head(Contents) = buf[front] /\ Contents # <<>>
          BY <2>0, <2>00, <4>1, <4>2, <4>3
        <4> QED  BY <4>1, <4>4 DEF D!DPopFront
      <3> QED  BY <3>1, <3>2
    <2>4. ASSUME PopBack PROVE D!DPopBack
      <3>1. CASE IsEmpty
        BY <2>0, <2>4, <3>1 DEF PopBack, IsEmpty, D!DPopBack, Contents, ItrGet
      <3>2. CASE ~IsEmpty
        <4>1. /\ size > 0 /\ size' = size - 1 /\ front' = front
              /\ buf' = buf /\ ret' = buf[Prev1(back)]
          BY <2>0, <2>4, <3>2 DEF PopBack, IsEmpty, BackValue
        <4>2. Contents[size] = buf[Prev1(back)]
          <5>1. size - 1 \in 0 .. (max_size - 1) /\ (size - 1) + 1 = size
            BY <2>0, <4>1
          <5>2. Prev1(back) = Slot(front, size - 1)
            BY <2>0, <5>1, SlotSteps
          <5> QED  BY <2>0, <4>1, <5>2
        <4>3. Contents' = SubSeq(Contents, 1, size - 1) /\ Contents # <<>>
          BY <2>0, <2>00, <4>1
        <4> QED  BY <2>0, <4>1, <4>2, <4>3 DEF D!DPopBack
      <3> QED  BY <3>1, <3>2
    <2>5. ASSUME Reset PROVE D!DReset
      <3>1. size' = 0 /\ ret' = ret
        BY <2>5 DEF Reset
      <3>2. Contents' = <<>>
        BY <2>00, <3>1
      <3> QED  BY <3>1, <3>2 DEF D!DReset
    <2>6. CASE UNCHANGED vars
      BY <2>6 DEF vars, Contents, ItrGet
    <2> QED  BY <1>2, <2>1, <2>2, <2>3, <2>4, <2>5, <2>6 DEF Next, D!DNext
  <1> QED  BY <1>1, <1>2, TypeCorrect, PTL DEF Spec, Refines, D!DSpec

-----------------------------------------------------------------------------
(* The allocators of tasks                                               *)

\* There are slabs of at least one descriptor: 128 of 8 in the code.
Sizes == N_SLABS \in Nat /\ N_TASK_T \in Nat \ {0}

\* The list has the members of S, once each and slab by slab.
Elements(list) == {list[i] : i \in 1 .. Len(list)}
Distinct(list) == \A i, j \in 1 .. Len(list) : list[i] = list[j] => i = j
Sorted(list) ==
  \A i, j \in 1 .. Len(list) : i < j => slab_index(list[i]) <= slab_index(list[j])
Lists(list, S) ==
  list \in Seq(Desc) /\ Elements(list) = S /\ Distinct(list) /\ Sorted(list)

Tasks(s) == {d \in used : slab_index(d) = s}
Typed ==
  /\ used \subseteq Desc
  /\ active_slabs \in [Slab -> {0, 1}]
  /\ task_count_in_slab \in [Slab -> Int]
  /\ stack_base \in [used -> Stack]
  /\ assertion = FALSE

\* The counter of an active slab counts its tasks, and it has some.
Counted ==
  \A s \in Slab :
    /\ active_slabs[s] = 1 <=> Tasks(s) # {}
    /\ active_slabs[s] = 1 => task_count_in_slab[s] = Cardinality(Tasks(s))

Inv ==
  /\ Typed /\ Counted /\ StacksDistinct
  /\ Lists(free_list, {d \in Desc : active_slabs[slab_index(d)] = 1} \ used)

-----------------------------------------------------------------------------
(* The free list                                                           *)

\* The loop of task_alloc_free, step by step.
IsKept(kept, list, s) ==
  /\ kept \in [0 .. Len(list) -> Seq(Desc)]
  /\ kept[0] = <<>>
  /\ \A k \in 1 .. Len(list) :
       kept[k] = IF slab_index(list[k]) = s THEN kept[k - 1] ELSE Append(kept[k - 1], list[k])

LEMMA DropSlabLoop ==
  ASSUME NEW list \in Seq(Desc), NEW s
  PROVE  \E kept : IsKept(kept, list, s) /\ DropSlab(list, s) = kept[Len(list)]
<1> DEFINE n == Len(list)
           g == [k \in 1 .. n |-> [x \in Seq(Desc) |->
                   IF slab_index(list[k]) = s THEN x ELSE Append(x, list[k])]]
           step(f) == [k \in 0 .. n |->
                   IF k = 0 THEN <<>>
                   ELSE IF slab_index(list[k]) = s THEN f[k - 1]
                   ELSE Append(f[k - 1], list[k])]
           kept == CHOOSE f : f = step(f)
<1>1. n \in Nat /\ <<>> \in Seq(Desc)
  OBVIOUS
<1>2. g \in [1 .. n -> [Seq(Desc) -> Seq(Desc)]]
  <2>1. ASSUME NEW k \in 1 .. n, NEW x \in Seq(Desc)
        PROVE  (IF slab_index(list[k]) = s THEN x ELSE Append(x, list[k])) \in Seq(Desc)
    BY AppendElements
  <2>2. QED BY <2>1
<1>3. PICK f : IsLoop(f, n, Seq(Desc), <<>>, g)
  <2> HIDE DEF n, g
  <2>1. QED BY <1>1, <1>2, LoopExists, Zenon
<1>4. f \in [0 .. n -> Seq(Desc)] /\ f[0] = <<>> /\ \A k \in 1 .. n : f[k] = g[k][f[k - 1]]
  <2> HIDE DEF n, g
  <2>1. QED BY <1>3 DEF IsLoop
<1>5. ASSUME NEW k \in 1 .. n
      PROVE  f[k] = IF slab_index(list[k]) = s THEN f[k - 1] ELSE Append(f[k - 1], list[k])
  <2>1. k - 1 \in 0 .. n
    BY <1>1
  <2>2. QED BY <1>4, <2>1
<1>6. f = step(f)
  <2>1. ASSUME NEW k \in 0 .. n PROVE f[k] = step(f)[k]
    <3>1. CASE k = 0
      BY <1>1, <1>4, <3>1
    <3>2. CASE k # 0
      <4>1. k \in 1 .. n
        BY <1>1, <3>2
      <4> HIDE DEF n
      <4>2. QED BY <1>5, <3>2, <4>1
    <3>3. QED BY <3>1, <3>2
  <2>2. step(f) = [k \in 0 .. n |-> step(f)[k]]
    OBVIOUS
  <2> HIDE DEF step, n
  <2>3. QED BY <1>4, <2>1, <2>2
<1>7. kept = step(kept)
  <2> HIDE DEF step
  <2>1. QED BY <1>6
<1>8. DropSlab(list, s) = kept[n]
  BY DEF DropSlab
<1> HIDE DEF kept
<1>9. \A k \in 0 .. n : kept[k] = f[k]
  <2> DEFINE T == {k \in Nat : k <= n /\ kept[k] # f[k]}
  <2> SUFFICES ASSUME T # {} PROVE FALSE
    BY <1>1
  <2>1. T \in SUBSET Nat
    OBVIOUS
  <2>2. PICK m \in T : \A k \in T : m <= k
    <3> HIDE DEF T
    <3>1. QED BY <2>1, NatMin
  <2>3. kept[0] = <<>>
    BY <1>1, <1>7
  <2>4. m \in 1 .. n
    BY <1>1, <1>4, <2>2, <2>3
  <2>5. kept[m - 1] = f[m - 1]
    BY <2>2, <2>4
  <2>6. kept[m] = IF slab_index(list[m]) = s THEN kept[m - 1] ELSE Append(kept[m - 1], list[m])
    <3>1. m \in 0 .. n /\ m # 0
      BY <1>1, <2>4
    <3> HIDE DEF n
    <3>2. QED BY <1>7, <3>1
  <2>7. QED BY <1>5, <2>2, <2>4, <2>5, <2>6
<1>10. IsKept(f, list, s)
  BY <1>4, <1>5 DEF IsKept
<1>11. QED BY <1>1, <1>8, <1>9, <1>10

\* The slab of a descriptor is a number.
LEMMA SlabIndex ==
  ASSUME Sizes, NEW d \in Desc
  PROVE  slab_index(d) \in Slab /\ slab_index(d) \in Int
BY DEF Sizes, Desc, Slab, slab_index

\* A list that grows at its end by a descriptor of the same or a later slab.
LEMMA AppendLists ==
  ASSUME Sizes, NEW list, NEW S, Lists(list, S), NEW d \in Desc, d \notin S,
         \A e \in S : slab_index(e) <= slab_index(d)
  PROVE  Lists(Append(list, d), S \cup {d})
<1> DEFINE r == Append(list, d)
           n == Len(list)
<1>1. /\ r \in Seq(Desc) /\ n \in Nat /\ Len(r) = n + 1
      /\ \A i \in 1 .. n : r[i] = list[i]
      /\ r[n + 1] = d
  BY AppendElements DEF Lists
<1> HIDE DEF r
<1>2. \A i \in 1 .. n : list[i] \in S /\ list[i] # d
  BY DEF Lists, Elements
<1> HIDE DEF n
<1>3. \A i \in 1 .. Len(r) : i = n + 1 \/ i \in 1 .. n
  BY <1>1
<1>4. Elements(r) = S \cup {d}
  <2>1. Elements(r) \subseteq S \cup {d}
    BY <1>1, <1>2, <1>3 DEF Elements
  <2>2. d \in Elements(r)
    <3>1. n + 1 \in 1 .. Len(r)
      BY <1>1
    <3>2. QED BY <1>1, <3>1 DEF Elements
  <2>3. ASSUME NEW e \in S PROVE e \in Elements(r)
    <3>1. PICK i \in 1 .. n : list[i] = e
      BY DEF Lists, Elements, n
    <3>2. i \in 1 .. Len(r) /\ r[i] = e
      BY <1>1, <3>1
    <3>3. QED BY <3>2 DEF Elements
  <2>4. QED BY <2>1, <2>2, <2>3
<1>5. Distinct(r)
  <2>1. \A i, j \in 1 .. n : list[i] = list[j] => i = j
    BY DEF Lists, Distinct, n
  <2>2. QED BY <1>1, <1>2, <1>3, <2>1 DEF Distinct
<1>6. Sorted(r)
  <2>1. \A i, j \in 1 .. n : i < j => slab_index(list[i]) <= slab_index(list[j])
    BY DEF Lists, Sorted, n
  <2>2. ASSUME NEW i \in 1 .. Len(r), NEW j \in 1 .. Len(r), i < j
        PROVE  slab_index(r[i]) <= slab_index(r[j])
    <3>1. i \in 1 .. n
      BY <1>1, <2>2
    <3>2. CASE j = n + 1
      BY <1>1, <1>2, <3>1, <3>2
    <3>3. CASE j \in 1 .. n
      BY <1>1, <2>1, <2>2, <3>1, <3>3
    <3>4. QED BY <1>3, <3>2, <3>3
  <2>3. QED BY <2>2 DEF Sorted
<1>7. QED BY <1>1, <1>4, <1>5, <1>6 DEF Lists, r

\* The list without its head.
LEMMA TailLists ==
  ASSUME NEW list, NEW S, Lists(list, S), list # <<>>
  PROVE  Head(list) \in S /\ Head(list) \in Desc /\ Lists(Tail(list), S \ {Head(list)})
<1> DEFINE r == Tail(list)
           n == Len(list)
<1>1. /\ Head(list) = list[1] /\ Head(list) \in Desc /\ r \in Seq(Desc)
      /\ n \in Nat \ {0} /\ Len(r) = n - 1 /\ \A i \in 1 .. n - 1 : r[i] = list[i + 1]
  BY TailElements DEF Lists
<1> HIDE DEF r
<1>2. /\ \A i \in 1 .. n : list[i] \in S
      /\ \A e \in S : \E i \in 1 .. n : list[i] = e
      /\ \A i, j \in 1 .. n : list[i] = list[j] => i = j
      /\ \A i, j \in 1 .. n : i < j => slab_index(list[i]) <= slab_index(list[j])
  BY DEF Lists, Elements, Distinct, Sorted
<1> HIDE DEF n
<1>3. \A i \in 1 .. Len(r) : i + 1 \in 1 .. n /\ i + 1 # 1 /\ r[i] = list[i + 1]
  BY <1>1
<1>4. Elements(r) = S \ {Head(list)}
  <2>1. ASSUME NEW i \in 1 .. Len(r) PROVE r[i] \in S \ {Head(list)}
    <3>1. 1 \in 1 .. n
      BY <1>1
    <3>2. QED BY <1>1, <1>2, <1>3, <3>1
  <2>2. ASSUME NEW e \in S \ {Head(list)} PROVE e \in Elements(r)
    <3>1. PICK i \in 1 .. n : list[i] = e
      BY <1>2
    <3>2. i - 1 \in 1 .. Len(r)
      BY <1>1, <3>1
    <3>3. r[i - 1] = e
      BY <1>1, <3>1, <3>2
    <3>4. QED BY <3>2, <3>3 DEF Elements
  <2>3. QED BY <2>1, <2>2 DEF Elements
<1>5. Distinct(r)
  <2>1. ASSUME NEW i \in 1 .. Len(r), NEW j \in 1 .. Len(r), r[i] = r[j] PROVE i = j
    <3>1. i + 1 = j + 1
      BY <1>2, <1>3, <2>1
    <3>2. QED BY <1>1, <3>1
  <2>2. QED BY <2>1 DEF Distinct
<1>6. Sorted(r)
  <2>1. ASSUME NEW i \in 1 .. Len(r), NEW j \in 1 .. Len(r), i < j
        PROVE  slab_index(r[i]) <= slab_index(r[j])
    <3>1. i + 1 < j + 1
      BY <1>1, <2>1
    <3>2. QED BY <1>2, <1>3, <3>1
  <2>2. QED BY <2>1 DEF Sorted
<1>7. Head(list) \in S
  <2>1. 1 \in 1 .. n
    BY <1>1
  <2>2. QED BY <1>1, <1>2, <2>1
<1>8. QED BY <1>1, <1>4, <1>5, <1>6, <1>7 DEF Lists, r

\* task_alloc_add_to_free_list keeps the list in order.
LEMMA AddLists ==
  ASSUME Sizes, NEW list, NEW S, Lists(list, S), NEW d \in Desc, d \notin S
  PROVE  Lists(AddToFreeList(list, d), S \cup {d})
<1> DEFINE n == Len(list)
           before == {k \in DOMAIN list : slab_index(list[k]) < slab_index(d)}
           stops(k) == 1 .. k - 1 \subseteq before /\ k \notin before
           p == CHOOSE k \in 1 .. n + 1 : stops(k)
           r == InsertAt(list, p, d)
<1>1. /\ list \in Seq(Desc) /\ n \in Nat /\ DOMAIN list = 1 .. n
      /\ \A i \in 1 .. n : list[i] \in S /\ list[i] \in Desc /\ list[i] # d
      /\ \A e \in S : \E i \in 1 .. n : list[i] = e
      /\ \A i, j \in 1 .. n : list[i] = list[j] => i = j
      /\ \A i, j \in 1 .. n : i < j => slab_index(list[i]) <= slab_index(list[j])
  <2>1. list \in Seq(Desc)
    BY DEF Lists
  <2>2. n \in Nat /\ DOMAIN list = 1 .. n /\ \A i \in 1 .. n : list[i] \in Desc
    BY <2>1
  <2>3. QED BY <2>1, <2>2 DEF Lists, Elements, Distinct, Sorted
<1>2. AddToFreeList(list, d) = r
  BY DEF AddToFreeList
<1> HIDE DEF n
<1>3. \E k \in 1 .. n + 1 : stops(k)
  <2>1. PICK k \in 0 .. n : (\A j \in 1 .. k : j \in before) /\ (k < n => k + 1 \notin before)
    <3> HIDE DEF before
    <3>1. QED BY <1>1, WalkEnds
  <2>2. k + 1 \in 1 .. n + 1 /\ 1 .. (k + 1) - 1 = 1 .. k
    BY <1>1
  <2>3. k + 1 \notin before
    BY <1>1, <2>1
  <2>4. stops(k + 1)
    <3> HIDE DEF before
    <3>1. QED BY <2>1, <2>2, <2>3
  <2> HIDE DEF stops
  <2>5. QED BY <2>2, <2>4
<1>4. p \in 1 .. n + 1 /\ stops(p)
  <2> HIDE DEF stops
  <2>1. QED BY <1>3
<1> HIDE DEF p
<1>5. /\ \A i \in 1 .. n : i < p => slab_index(list[i]) <= slab_index(d)
      /\ \A i \in 1 .. n : i >= p => slab_index(d) <= slab_index(list[i])
  <2>1. \A i \in 1 .. n : slab_index(list[i]) \in Int
    BY <1>1, SlabIndex
  <2>2. slab_index(d) \in Int
    BY SlabIndex
  <2>3. ASSUME NEW i \in 1 .. n, i < p PROVE slab_index(list[i]) <= slab_index(d)
    <3>1. i \in 1 .. p - 1
      BY <1>1, <1>4, <2>3
    <3>2. slab_index(list[i]) < slab_index(d)
      BY <1>4, <3>1
    <3>3. QED BY <2>1, <2>2, <3>2
  <2>4. ASSUME NEW i \in 1 .. n, i >= p PROVE slab_index(d) <= slab_index(list[i])
    <3>1. p \in 1 .. n
      BY <1>1, <1>4, <2>4
    <3>2. ~ (slab_index(list[p]) < slab_index(d))
      BY <1>1, <1>4, <3>1
    <3>3. i = p \/ p < i
      BY <1>1, <1>4, <2>4
    <3>4. slab_index(list[p]) <= slab_index(list[i])
      BY <1>1, <2>1, <3>1, <3>3
    <3>5. QED BY <2>1, <2>2, <3>1, <3>2, <3>4
  <2>5. QED BY <2>3, <2>4
<1> HIDE DEF before, stops
<1>6. /\ r \in Seq(Desc) /\ Len(r) = n + 1
      /\ \A j \in 1 .. n + 1 : r[j] = IF j < p THEN list[j] ELSE IF j = p THEN d ELSE list[j - 1]
  <2>1. IsInsert(r, Desc, list, p, d)
    BY <1>1, <1>4, InsertAtElements DEF n
  <2> HIDE DEF r
  <2>2. QED BY <2>1 DEF IsInsert, n
<1> HIDE DEF r
<1> DEFINE old(i) == IF i < p THEN i ELSE i - 1
<1>7. ASSUME NEW i \in 1 .. Len(r), i # p
      PROVE  old(i) \in 1 .. n /\ r[i] = list[old(i)] /\ (i < p => old(i) < p) /\ (i > p => old(i) >= p)
  BY <1>1, <1>4, <1>6, <1>7
<1>8. r[p] = d /\ p \in 1 .. Len(r)
  BY <1>4, <1>6
<1>9. Elements(r) = S \cup {d}
  <2>1. ASSUME NEW i \in 1 .. Len(r) PROVE r[i] \in S \cup {d}
    <3> HIDE DEF old
    <3>1. QED BY <1>1, <1>7, <1>8
  <2>2. ASSUME NEW e \in S PROVE e \in Elements(r)
    <3>1. PICK i \in 1 .. n : list[i] = e
      BY <1>1
    <3>2. CASE i < p
      <4>1. i \in 1 .. Len(r) /\ r[i] = e
        BY <1>1, <1>6, <3>1, <3>2
      <4>2. QED BY <4>1 DEF Elements
    <3>3. CASE i >= p
      <4>1. i + 1 \in 1 .. Len(r) /\ (i + 1) - 1 = i /\ ~ (i + 1 < p) /\ i + 1 # p
        BY <1>1, <1>4, <1>6, <3>3
      <4>2. r[i + 1] = e
        BY <1>6, <3>1, <4>1
      <4>3. QED BY <4>1, <4>2 DEF Elements
    <3>4. i < p \/ i >= p
      BY <1>1, <1>4
    <3>5. QED BY <3>2, <3>3, <3>4
  <2>3. d \in Elements(r)
    BY <1>8 DEF Elements
  <2>4. Elements(r) \subseteq S \cup {d}
    BY <2>1 DEF Elements
  <2>5. QED BY <2>2, <2>3, <2>4
<1>10. Distinct(r)
  <2>1. ASSUME NEW i \in 1 .. Len(r), NEW j \in 1 .. Len(r), r[i] = r[j] PROVE i = j
    <3>1. CASE i # p /\ j # p
      <4>1. old(i) = old(j)
        <5> HIDE DEF old
        <5>1. QED BY <1>1, <1>7, <2>1, <3>1
      <4>2. QED BY <1>1, <1>4, <1>6, <3>1, <4>1
    <3>2. CASE i # p /\ j = p
      <4> HIDE DEF old
      <4>1. QED BY <1>1, <1>7, <1>8, <2>1, <3>2
    <3>3. CASE i = p /\ j # p
      <4> HIDE DEF old
      <4>1. QED BY <1>1, <1>7, <1>8, <2>1, <3>3
    <3>4. QED BY <3>1, <3>2, <3>3
  <2>2. QED BY <2>1 DEF Distinct
<1>11. Sorted(r)
  <2>1. ASSUME NEW i \in 1 .. Len(r), NEW j \in 1 .. Len(r), i < j
        PROVE  slab_index(r[i]) <= slab_index(r[j])
    <3>1. CASE i # p /\ j # p
      <4>1. old(i) < old(j)
        BY <1>1, <1>4, <1>6, <2>1, <3>1
      <4> HIDE DEF old
      <4>2. QED BY <1>1, <1>7, <3>1, <4>1
    <3>2. CASE j = p
      <4>1. i # p /\ i < p
        BY <1>4, <1>6, <2>1, <3>2
      <4> HIDE DEF old
      <4>2. QED BY <1>5, <1>7, <1>8, <3>2, <4>1
    <3>3. CASE i = p
      <4>1. j # p /\ j > p
        BY <1>4, <1>6, <2>1, <3>3
      <4> HIDE DEF old
      <4>2. QED BY <1>5, <1>7, <1>8, <3>3, <4>1
    <3>4. QED BY <3>1, <3>2, <3>3
  <2>2. QED BY <2>1 DEF Sorted
<1>12. QED BY <1>2, <1>6, <1>9, <1>10, <1>11 DEF Lists

\* A slab just put into use.
LEMMA NewSlabLists ==
  ASSUME Sizes, NEW s \in Slab
  PROVE  /\ Lists(NewSlabList(s), {d \in Desc : slab_index(d) = s})
         /\ NewSlabList(s) # <<>>
<1> DEFINE r == NewSlabList(s)
<1>1. /\ r \in Seq(Desc) /\ Len(r) = N_TASK_T /\ N_TASK_T \in Nat \ {0}
      /\ \A j \in 1 .. N_TASK_T : r[j] = <<s, N_TASK_T - j>>
  BY DEF NewSlabList, Desc, Sizes
<1> HIDE DEF r
<1>2. \A j \in 1 .. N_TASK_T : r[j] \in Desc /\ slab_index(r[j]) = s
  BY <1>1 DEF Desc, slab_index
<1>3. Elements(r) = {d \in Desc : slab_index(d) = s}
  <2>1. ASSUME NEW d \in Desc, slab_index(d) = s PROVE d \in Elements(r)
    <3>1. PICK x \in 0 .. N_TASK_T - 1 : d = <<s, x>>
      BY <2>1 DEF Desc, slab_index
    <3>2. N_TASK_T - x \in 1 .. N_TASK_T /\ N_TASK_T - (N_TASK_T - x) = x
      BY <1>1
    <3>3. r[N_TASK_T - x] = d
      BY <1>1, <3>1, <3>2
    <3>4. QED BY <1>1, <3>2, <3>3 DEF Elements
  <2>2. Elements(r) \subseteq {d \in Desc : slab_index(d) = s}
    BY <1>1, <1>2 DEF Elements
  <2>3. QED BY <2>1, <2>2
<1>4. Distinct(r)
  BY <1>1 DEF Distinct
<1>5. Sorted(r)
  <2>1. s \in Int
    BY DEF Slab, Sizes
  <2>2. QED BY <1>1, <1>2, <2>1, SMTT(60) DEF Sorted
<1>6. r # <<>>
  BY <1>1
<1>7. QED BY <1>1, <1>3, <1>4, <1>5, <1>6 DEF Lists, r

\* The loop of task_alloc_free takes out the descriptors of the slab, no others.
LEMMA DropLists ==
  ASSUME Sizes, NEW list, NEW S, Lists(list, S), NEW s
  PROVE  Lists(DropSlab(list, s), {d \in S : slab_index(d) # s})
<1> DEFINE n == Len(list)
           Up(k) == {list[i] : i \in {j \in 1 .. k : slab_index(list[j]) # s}}
<1>1. /\ list \in Seq(Desc) /\ n \in Nat
      /\ \A i \in 1 .. n : list[i] \in S /\ list[i] \in Desc
      /\ \A e \in S : \E i \in 1 .. n : list[i] = e
      /\ \A i, j \in 1 .. n : list[i] = list[j] => i = j
      /\ \A i, j \in 1 .. n : i < j => slab_index(list[i]) <= slab_index(list[j])
  <2>1. list \in Seq(Desc)
    BY DEF Lists
  <2>2. n \in Nat /\ \A i \in 1 .. n : list[i] \in Desc
    BY <2>1
  <2>3. QED BY <2>1, <2>2 DEF Lists, Elements, Distinct, Sorted
<1>2. PICK kept : IsKept(kept, list, s) /\ DropSlab(list, s) = kept[n]
  BY <1>1, DropSlabLoop
<1>3. /\ kept[0] = <<>>
      /\ \A k \in 1 .. n : kept[k] = IF slab_index(list[k]) = s THEN kept[k - 1]
                                     ELSE Append(kept[k - 1], list[k])
  BY <1>2 DEF IsKept
<1> HIDE DEF n
<1> DEFINE T == {k \in Nat : k <= n /\ ~ Lists(kept[k], Up(k))}
<1>4. Lists(kept[0], Up(0))
  <2>1. Up(0) = {}
    OBVIOUS
  <2>2. Len(<<>>) = 0 /\ <<>> \in Seq(Desc)
    OBVIOUS
  <2> HIDE DEF Up
  <2>3. QED BY <1>3, <2>1, <2>2 DEF Lists, Elements, Distinct, Sorted
<1>5. ASSUME NEW m \in 1 .. n, Lists(kept[m - 1], Up(m - 1))
      PROVE  Lists(kept[m], Up(m))
  <2>1. CASE slab_index(list[m]) = s
    <3>1. Up(m) = Up(m - 1)
      BY <1>1, <2>1
    <3> HIDE DEF Up
    <3>2. QED BY <1>3, <1>5, <2>1, <3>1
  <2>2. CASE slab_index(list[m]) # s
    <3>1. Up(m) = Up(m - 1) \cup {list[m]}
      <4>1. 1 .. m = (1 .. m - 1) \cup {m}
        BY <1>1
      <4>2. {j \in 1 .. m : slab_index(list[j]) # s}
              = {j \in 1 .. m - 1 : slab_index(list[j]) # s} \cup {m}
        BY <2>2, <4>1
      <4>3. QED BY <4>2
    <3>2. list[m] \notin Up(m - 1) /\ \A e \in Up(m - 1) : slab_index(e) <= slab_index(list[m])
      BY <1>1
    <3>3. list[m] \in Desc
      BY <1>1
    <3> HIDE DEF Up
    <3>4. Lists(Append(kept[m - 1], list[m]), Up(m - 1) \cup {list[m]})
      BY <1>5, <3>2, <3>3, AppendLists
    <3>5. QED BY <1>3, <2>2, <3>1, <3>4
  <2>3. QED BY <2>1, <2>2
<1>6. Up(n) = {d \in S : slab_index(d) # s}
  <2>1. Up(n) \subseteq {d \in S : slab_index(d) # s}
    BY <1>1
  <2>2. ASSUME NEW d \in S, slab_index(d) # s PROVE d \in Up(n)
    BY <1>1, <2>2
  <2> HIDE DEF Up
  <2>3. QED BY <2>1, <2>2
<1> HIDE DEF Up
<1>7. T = {}
  <2> SUFFICES ASSUME T # {} PROVE FALSE
    OBVIOUS
  <2>1. T \in SUBSET Nat
    OBVIOUS
  <2>2. PICK m \in T : \A k \in T : m <= k
    <3> HIDE DEF T
    <3>1. QED BY <2>1, NatMin
  <2>3. m \in 1 .. n
    BY <1>1, <1>4, <2>2
  <2>4. m - 1 \in Nat /\ m - 1 <= n /\ m - 1 \notin T
    BY <1>1, <2>2, <2>3
  <2>5. QED BY <1>5, <2>2, <2>3, <2>4
<1>8. Lists(kept[n], Up(n))
  <2>1. n \notin T
    BY <1>7
  <2>2. QED BY <1>1, <2>1
<1>9. QED BY <1>2, <1>6, <1>8

-----------------------------------------------------------------------------
(* The stacks                                                              *)

\* The numbers below n are n.
LEMMA Below ==
  ASSUME NEW n \in Nat
  PROVE  IsFiniteSet(0 .. n - 1) /\ Cardinality(0 .. n - 1) = n
<1>1. /\ IsFiniteSet(0 .. n - 1)
      /\ Cardinality(0 .. n - 1) = IF 0 > n - 1 THEN 0 ELSE (n - 1) - 0 + 1
  BY FS_Interval
<1>2. QED BY <1>1

\* There are as many stacks as descriptors, so one is free whenever a descriptor
\* is, and there is a first one.
LEMMA StackLeft ==
  ASSUME Sizes, used \subseteq Desc, used # Desc, stack_base \in [used -> Stack],
         is_allocd = {stack_base[d] : d \in used}
  PROVE  \E k \in Stack \ is_allocd : FirstFreeStack = {k}
<1> DEFINE X == N_TASK_T * N_SLABS
<1>1. X \in Nat /\ Stack = 0 .. X - 1 /\ Stack \subseteq Nat
  BY DEF Sizes, Stack
<1>2. IsFiniteSet(Desc) /\ Cardinality(Desc) = X
  <2>1. /\ IsFiniteSet(0 .. N_SLABS - 1) /\ Cardinality(0 .. N_SLABS - 1) = N_SLABS
        /\ IsFiniteSet(0 .. N_TASK_T - 1) /\ Cardinality(0 .. N_TASK_T - 1) = N_TASK_T
    BY Below DEF Sizes
  <2>2. /\ IsFiniteSet(Desc)
        /\ Cardinality(Desc) = Cardinality(0 .. N_SLABS - 1) * Cardinality(0 .. N_TASK_T - 1)
    BY <2>1, FS_Product DEF Desc, Slab
  <2>3. QED BY <2>1, <2>2 DEF Sizes
<1>3. IsFiniteSet(used) /\ Cardinality(used) \in Nat /\ Cardinality(used) < X
  <2>1. /\ IsFiniteSet(used) /\ Cardinality(used) <= Cardinality(Desc)
        /\ Cardinality(used) # Cardinality(Desc)
    BY <1>2, FS_Subset
  <2>2. Cardinality(used) \in Nat
    BY <2>1, FS_CardinalityType
  <2> HIDE DEF X
  <2>3. QED BY <1>1, <1>2, <2>1, <2>2
<1>4. Cardinality(Stack) = X
  <2> HIDE DEF X
  <2>1. Cardinality(0 .. X - 1) = X
    BY <1>1, FS_Interval
  <2>2. QED BY <1>1, <2>1
<1> HIDE DEF X
<1>5. Stack \ is_allocd # {}
  <2> SUFFICES ASSUME Stack \ is_allocd = {} PROVE FALSE
    OBVIOUS
  <2>1. stack_base \in Surjection(used, Stack)
    BY DEF Surjection
  <2>2. Cardinality(Stack) <= Cardinality(used)
    BY <1>3, <2>1, FS_Surjection
  <2>3. QED BY <1>1, <1>3, <1>4, <2>2
<1>6. PICK k \in Stack \ is_allocd : \A j \in Stack \ is_allocd : k <= j
  <2>1. Stack \ is_allocd \in SUBSET Nat
    BY <1>1
  <2>2. QED BY <1>5, <2>1, NatMin
<1>7. \A j \in 0 .. k - 1 : j \in is_allocd
  BY <1>1, <1>6
<1>8. ASSUME NEW j \in FirstFreeStack PROVE j = k
  <2>1. j \in Stack /\ k \in Stack /\ k \in Nat /\ j \in Nat
    BY <1>1 DEF FirstFreeStack
  <2>2. k \notin 0 .. j - 1
    BY DEF FirstFreeStack
  <2>3. j \notin 0 .. k - 1
    BY <1>7 DEF FirstFreeStack
  <2>4. QED BY <2>1, <2>2, <2>3
<1>9. FirstFreeStack = {k}
  BY <1>7, <1>8 DEF FirstFreeStack
<1>10. QED BY <1>9

\* stack_alloc_new gives the new task a stack that no other task has.
LEMMA StackAllocSound ==
  ASSUME Sizes, Inv, NEW d \in Desc \ used, StackAlloc(d), used' = used \cup {d}
  PROVE  assertion' = FALSE /\ stack_base' \in [used' -> Stack] /\ StacksDistinct'
<1>1. /\ used \subseteq Desc /\ used # Desc /\ stack_base \in [used -> Stack]
      /\ is_allocd = {stack_base[e] : e \in used}
      /\ \A e, f \in used : stack_base[e] = stack_base[f] => e = f
  BY DEF Inv, Typed, StacksDistinct
<1>2. PICK k \in Stack \ is_allocd : FirstFreeStack = {k}
  BY <1>1, StackLeft
<1>3. /\ assertion' = FALSE /\ is_allocd' = is_allocd \cup {k}
      /\ stack_base' = [e \in used \cup {d} |-> IF e = d THEN k ELSE stack_base[e]]
  BY <1>2 DEF StackAlloc
<1>4. /\ stack_base' \in [used' -> Stack] /\ stack_base'[d] = k
      /\ \A e \in used : stack_base'[e] = stack_base[e] /\ stack_base[e] # k
  BY <1>1, <1>2, <1>3
<1>5. \A e, f \in used' : stack_base'[e] = stack_base'[f] => e = f
  BY <1>1, <1>4
<1>6. is_allocd' = {stack_base'[e] : e \in used'}
  BY <1>1, <1>3, <1>4
<1>7. QED BY <1>3, <1>4, <1>5, <1>6 DEF StacksDistinct

\* stack_alloc_free gives back the stack of that task alone.
LEMMA StackFreeSound ==
  ASSUME Inv, NEW d \in used, is_allocd' = StackFree(stack_base[d]), used' = used \ {d},
         stack_base' = [e \in used \ {d} |-> stack_base[e]]
  PROVE  stack_base' \in [used' -> Stack] /\ StacksDistinct'
<1>1. /\ stack_base \in [used -> Stack]
      /\ is_allocd = {stack_base[e] : e \in used}
      /\ \A e, f \in used : stack_base[e] = stack_base[f] => e = f
  BY DEF Inv, Typed, StacksDistinct
<1>2. stack_base' \in [used' -> Stack] /\ \A e \in used' : stack_base'[e] = stack_base[e]
  BY <1>1
<1>3. \A e, f \in used' : stack_base'[e] = stack_base'[f] => e = f
  BY <1>1, <1>2
<1>4. is_allocd' = {stack_base'[e] : e \in used'}
  BY <1>1, <1>2 DEF StackFree
<1>5. QED BY <1>2, <1>3, <1>4 DEF StacksDistinct

-----------------------------------------------------------------------------
(* The actions                                                             *)

\* The tasks of a slab can be counted.
LEMMA TasksFinite ==
  ASSUME Sizes, Inv, NEW s
  PROVE  IsFiniteSet(Tasks(s)) /\ Cardinality(Tasks(s)) \in Nat
         /\ (Cardinality(Tasks(s)) = 0 <=> Tasks(s) = {})
<1>1. IsFiniteSet(0 .. N_SLABS - 1) /\ IsFiniteSet(0 .. N_TASK_T - 1)
  BY FS_Interval DEF Sizes
<1>2. IsFiniteSet(Desc)
  BY <1>1, FS_Product DEF Desc, Slab
<1>3. Tasks(s) \in SUBSET Desc
  BY DEF Tasks, Inv, Typed
<1>4. IsFiniteSet(Tasks(s))
  BY <1>2, <1>3, FS_Subset
<1>5. QED BY <1>4, FS_CardinalityType, FS_EmptySet

LEMMA InitInv == ASSUME Sizes PROVE AllocInit => Inv
<1> SUFFICES ASSUME AllocInit PROVE Inv
  OBVIOUS
<1>1. Typed
  BY DEF AllocInit, Typed
<1>2. Counted
  BY DEF AllocInit, Counted, Tasks
<1>3. StacksDistinct
  BY DEF AllocInit, StacksDistinct
<1>4. Lists(free_list, {d \in Desc : active_slabs[slab_index(d)] = 1} \ used)
  <2>1. {d \in Desc : active_slabs[slab_index(d)] = 1} \ used = {}
    BY SlabIndex DEF AllocInit
  <2>2. free_list = <<>> /\ Len(<<>>) = 0 /\ <<>> \in Seq(Desc)
    BY DEF AllocInit
  <2>3. QED BY <2>1, <2>2 DEF Lists, Elements, Distinct, Sorted
<1>5. QED BY <1>1, <1>2, <1>3, <1>4 DEF Inv

\* A step that gives descriptor d a task: its slab is active and its counter
\* counts one more, or starts with it.
LEMMA TaskAdded ==
  ASSUME Sizes, Inv, NEW d \in Desc \ used, used' = used \cup {d},
         active_slabs' = [active_slabs EXCEPT ![slab_index(d)] = 1],
         task_count_in_slab' = [task_count_in_slab EXCEPT ![slab_index(d)] =
           IF active_slabs[slab_index(d)] = 1 THEN @ + 1 ELSE 1]
  PROVE  Counted'
<1> DEFINE i == slab_index(d)
<1>1. i \in Slab
  BY SlabIndex
<1>2. Tasks(i)' = Tasks(i) \cup {d} /\ d \notin Tasks(i)
  BY DEF Tasks
<1>3. \A s \in Slab \ {i} : Tasks(s)' = Tasks(s)
  BY DEF Tasks
<1>4. Cardinality(Tasks(i)') = Cardinality(Tasks(i)) + 1
  <2>1. Cardinality(Tasks(i) \cup {d}) = Cardinality(Tasks(i)) + 1
    BY <1>2, TasksFinite, FS_AddElement
  <2>2. QED BY <1>2, <2>1
<1>5. active_slabs[i] = 1 => task_count_in_slab[i] = Cardinality(Tasks(i))
  BY <1>1 DEF Inv, Counted
<1>6. active_slabs[i] # 1 => Cardinality(Tasks(i)) = 0
  BY <1>1, TasksFinite DEF Inv, Counted
<1>7. /\ active_slabs'[i] = 1
      /\ task_count_in_slab'[i] = IF active_slabs[i] = 1 THEN task_count_in_slab[i] + 1 ELSE 1
      /\ \A s \in Slab \ {i} : active_slabs'[s] = active_slabs[s]
                             /\ task_count_in_slab'[s] = task_count_in_slab[s]
  BY <1>1 DEF Inv, Typed
<1>8. task_count_in_slab'[i] = Cardinality(Tasks(i)')
  BY <1>4, <1>5, <1>6, <1>7
<1> HIDE DEF i
<1>9. ASSUME NEW s \in Slab
      PROVE  /\ active_slabs'[s] = 1 <=> Tasks(s)' # {}
             /\ active_slabs'[s] = 1 => task_count_in_slab'[s] = Cardinality(Tasks(s)')
  <2>1. CASE s = i
    BY <1>2, <1>7, <1>8, <2>1
  <2>2. CASE s # i
    BY <1>3, <1>7, <2>2 DEF Inv, Counted
  <2>3. QED BY <2>1, <2>2
<1>10. QED BY <1>9 DEF Counted

\* The first inactive slab, if there is one.
LEMMA FirstSlab ==
  ASSUME Sizes, NEW i \in FirstInactive
  PROVE  FirstInactive = {i} /\ i \in Slab /\ active_slabs[i] = 0
<1>1. \A s \in Slab : s \in Nat
  BY DEF Slab, Sizes
<1>2. ASSUME NEW j \in FirstInactive PROVE j = i
  <2>1. i \in Nat /\ j \in Nat /\ i \notin 0 .. j - 1 /\ j \notin 0 .. i - 1
    BY <1>1 DEF FirstInactive
  <2>2. QED BY <2>1
<1>3. QED BY <1>2 DEF FirstInactive

\* task_alloc_new, whether it takes a descriptor of an active slab or puts a slab
\* into use, hands out one that has no task.
LEMMA NewStep ==
  ASSUME Sizes, Inv, New
  PROVE  \E d \in Desc \ used :
           /\ used' = used \cup {d}
           /\ active_slabs' = [active_slabs EXCEPT ![slab_index(d)] = 1]
           /\ task_count_in_slab' = [task_count_in_slab EXCEPT ![slab_index(d)] =
                IF active_slabs[slab_index(d)] = 1 THEN @ + 1 ELSE 1]
           /\ Lists(free_list', {e \in Desc : active_slabs'[slab_index(e)] = 1} \ used')
           /\ StackAlloc(d)
           /\ free_list # <<>> => active_slabs[slab_index(d)] = 1
           /\ free_list = <<>> => active_slabs[slab_index(d)] = 0
<1> DEFINE A == {e \in Desc : active_slabs[slab_index(e)] = 1}
           i == CHOOSE x \in FirstInactive : TRUE
           list == IF free_list # <<>> THEN free_list ELSE NewSlabList(i)
           d == Head(list)
<1>1. /\ active_slabs \in [Slab -> {0, 1}] /\ task_count_in_slab \in [Slab -> Int]
      /\ used \subseteq Desc /\ Lists(free_list, A \ used)
  BY DEF Inv, Typed
<1>2. /\ free_list # <<>> \/ FirstInactive # {}
      /\ free_list' = Tail(list)
      /\ active_slabs' = [s \in Slab |-> IF s \in Activated THEN 1 ELSE active_slabs[s]]
      /\ task_count_in_slab' = [CountsAtNew EXCEPT ![slab_index(d)] = @ + 1]
      /\ used' = used \cup {d}
      /\ StackAlloc(d)
  BY DEF New
<1>3. CASE free_list # <<>>
  <2>1. d = Head(free_list) /\ free_list' = Tail(free_list) /\ Activated = {}
    BY <1>2, <1>3 DEF Activated
  <2> HIDE DEF list, d, i
  <2>2. d \in A \ used /\ d \in Desc /\ Lists(free_list', (A \ used) \ {d})
    BY <1>1, <1>3, <2>1, TailLists
  <2>3. slab_index(d) \in Slab /\ active_slabs[slab_index(d)] = 1
    BY <2>2, SlabIndex
  <2>4. active_slabs' = [active_slabs EXCEPT ![slab_index(d)] = 1] /\ active_slabs' = active_slabs
    BY <1>1, <1>2, <2>1, <2>3
  <2>5. task_count_in_slab' = [task_count_in_slab EXCEPT ![slab_index(d)] =
          IF active_slabs[slab_index(d)] = 1 THEN @ + 1 ELSE 1]
    <3>1. CountsAtNew = task_count_in_slab
      BY <1>1, <2>1 DEF CountsAtNew
    <3>2. QED BY <1>1, <1>2, <2>3, <3>1
  <2>6. {e \in Desc : active_slabs'[slab_index(e)] = 1} \ used' = (A \ used) \ {d}
    BY <1>2, <2>4
  <2> HIDE DEF A
  <2>7. QED BY <1>2, <1>3, <2>2, <2>3, <2>4, <2>5, <2>6
<1>4. CASE free_list = <<>>
  <2>1. i \in FirstInactive
    BY <1>2, <1>4
  <2>2. /\ d = Head(NewSlabList(i)) /\ free_list' = Tail(NewSlabList(i))
        /\ Activated = FirstInactive
    BY <1>2, <1>4 DEF Activated
  <2> HIDE DEF list, d, i
  <2>3. FirstInactive = {i} /\ i \in Slab /\ active_slabs[i] = 0
    BY <2>1, FirstSlab
  <2> DEFINE I == {e \in Desc : slab_index(e) = i}
  <2>4. Lists(NewSlabList(i), I) /\ NewSlabList(i) # <<>>
    BY <2>3, NewSlabLists
  <2>5. d \in I /\ d \in Desc /\ Lists(free_list', I \ {d})
    <3> HIDE DEF I
    <3>1. QED BY <2>2, <2>4, TailLists
  <2>6. slab_index(d) = i
    BY <2>5
  <2>7. \A e \in used : slab_index(e) # i
    <3>1. Tasks(i) = {}
      BY <2>3 DEF Inv, Counted
    <3>2. QED BY <3>1 DEF Tasks
  <2>8. d \notin used
    BY <2>6, <2>7
  <2>9. active_slabs' = [active_slabs EXCEPT ![slab_index(d)] = 1]
    BY <1>1, <1>2, <2>2, <2>3, <2>6
  <2>10. task_count_in_slab' = [task_count_in_slab EXCEPT ![slab_index(d)] =
           IF active_slabs[slab_index(d)] = 1 THEN @ + 1 ELSE 1]
    <3>1. CountsAtNew = [task_count_in_slab EXCEPT ![i] = 0]
      BY <1>1, <2>2, <2>3 DEF CountsAtNew
    <3>2. QED BY <1>1, <1>2, <2>3, <2>6, <3>1
  <2>11. A \ used = {}
    <3>1. Elements(free_list) = {}
      <4>1. Len(free_list) = 0
        BY <1>4
      <4>2. QED BY <4>1 DEF Elements
    <3>2. QED BY <1>1, <3>1 DEF Lists
  <2>12. {e \in Desc : active_slabs'[slab_index(e)] = 1} \ used' = I \ {d}
    <3>1. \A e \in Desc : slab_index(e) \in Slab
      BY SlabIndex
    <3>2. \A e \in Desc : active_slabs'[slab_index(e)] = 1 <=> (e \in A \/ e \in I)
      BY <1>1, <2>3, <2>6, <2>9, <3>1
    <3>3. \A e \in I : e \notin used
      BY <2>7
    <3>4. QED BY <1>2, <2>11, <3>2, <3>3
  <2>13. active_slabs[slab_index(d)] = 0
    BY <2>3, <2>6
  <2> HIDE DEF A, I
  <2>14. QED BY <1>2, <1>4, <2>5, <2>8, <2>9, <2>10, <2>12, <2>13
<1>5. QED BY <1>3, <1>4

LEMMA NewKeeps ==
  ASSUME Sizes, Inv, New
  PROVE  Inv'
<1>1. PICK d \in Desc \ used :
           /\ used' = used \cup {d}
           /\ active_slabs' = [active_slabs EXCEPT ![slab_index(d)] = 1]
           /\ task_count_in_slab' = [task_count_in_slab EXCEPT ![slab_index(d)] =
                IF active_slabs[slab_index(d)] = 1 THEN @ + 1 ELSE 1]
           /\ Lists(free_list', {e \in Desc : active_slabs'[slab_index(e)] = 1} \ used')
           /\ StackAlloc(d)
  BY NewStep
<1>2. assertion' = FALSE /\ stack_base' \in [used' -> Stack] /\ StacksDistinct'
  BY <1>1, StackAllocSound
<1>3. Counted'
  BY <1>1, TaskAdded
<1>4. slab_index(d) \in Slab
  BY SlabIndex
<1>5. /\ used' \subseteq Desc /\ active_slabs' \in [Slab -> {0, 1}]
      /\ task_count_in_slab' \in [Slab -> Int]
  BY <1>1, <1>4 DEF Inv, Typed
<1>6. QED BY <1>1, <1>2, <1>3, <1>5 DEF Inv, Typed

\* task_dealloc of a task that is not the last of its slab, and of one that is.
LEMMA FreeKeeps ==
  ASSUME Sizes, Inv, NEW d \in Desc, Free(d)
  PROVE  Inv'
<1> DEFINE i == slab_index(d)
           n == task_count_in_slab[i] - 1
           A == {e \in Desc : active_slabs[slab_index(e)] = 1}
           list == AddToFreeList(free_list, d)
<1>1. /\ d \in used /\ used' = used \ {d} /\ assertion' = assertion
      /\ is_allocd' = StackFree(stack_base[d])
      /\ stack_base' = [e \in used \ {d} |-> stack_base[e]]
      /\ task_count_in_slab' = [task_count_in_slab EXCEPT ![i] = n]
      /\ free_list' = IF n = 0 THEN DropSlab(list, i) ELSE list
      /\ active_slabs' = IF n = 0 THEN [active_slabs EXCEPT ![i] = 0] ELSE active_slabs
  BY DEF Free
<1>2. i \in Slab /\ \A e \in Desc : slab_index(e) \in Slab
  BY SlabIndex
<1>3. /\ active_slabs \in [Slab -> {0, 1}] /\ task_count_in_slab \in [Slab -> Int]
      /\ used \subseteq Desc /\ Lists(free_list, A \ used)
  BY DEF Inv, Typed
<1>4. d \in Tasks(i) /\ active_slabs[i] = 1 /\ task_count_in_slab[i] = Cardinality(Tasks(i))
  BY <1>1, <1>2 DEF Inv, Counted, Tasks
<1>5. Tasks(i)' = Tasks(i) \ {d} /\ \A s \in Slab \ {i} : Tasks(s)' = Tasks(s)
  BY <1>1 DEF Tasks
<1>6. /\ Cardinality(Tasks(i)') = n /\ n \in Int
      /\ n = 0 <=> Tasks(i)' = {}
  <2>1. /\ IsFiniteSet(Tasks(i) \ {d}) /\ Cardinality(Tasks(i) \ {d}) = Cardinality(Tasks(i)) - 1
    BY <1>4, TasksFinite, FS_RemoveElement
  <2>2. Cardinality(Tasks(i) \ {d}) = 0 <=> Tasks(i) \ {d} = {}
    BY <2>1, FS_EmptySet
  <2>3. Cardinality(Tasks(i)) \in Nat
    BY TasksFinite
  <2>4. QED BY <1>4, <1>5, <2>1, <2>2, <2>3
<1>7. stack_base' \in [used' -> Stack] /\ StacksDistinct'
  BY <1>1, StackFreeSound
<1>8. Lists(list, (A \ used) \cup {d})
  BY <1>1, <1>3, AddLists
<1> HIDE DEF list, n
<1>9. Typed'
  BY <1>1, <1>2, <1>3, <1>6, <1>7 DEF Inv, Typed
<1>10. Counted'
  <2>1. ASSUME NEW s \in Slab
        PROVE  /\ active_slabs'[s] = 1 <=> Tasks(s)' # {}
               /\ active_slabs'[s] = 1 => task_count_in_slab'[s] = Cardinality(Tasks(s)')
    <3>1. CASE s = i
      <4>1. task_count_in_slab'[i] = n /\ active_slabs'[i] = IF n = 0 THEN 0 ELSE 1
        BY <1>1, <1>2, <1>3, <1>4
      <4>2. QED BY <1>6, <3>1, <4>1
    <3>2. CASE s # i
      <4>1. task_count_in_slab'[s] = task_count_in_slab[s] /\ active_slabs'[s] = active_slabs[s]
        BY <1>1, <1>3, <3>2
      <4>2. QED BY <1>5, <3>2, <4>1 DEF Inv, Counted
    <3>3. QED BY <3>1, <3>2
  <2>2. QED BY <2>1 DEF Counted
<1>11. Lists(free_list', {e \in Desc : active_slabs'[slab_index(e)] = 1} \ used')
  <2>1. CASE n = 0
    <3>1. Lists(free_list', {e \in (A \ used) \cup {d} : slab_index(e) # i})
      <4> HIDE DEF A, i
      <4>1. QED BY <1>1, <1>8, <2>1, DropLists
    <3>2. \A e \in Desc : active_slabs'[slab_index(e)] = 1 <=> e \in A /\ slab_index(e) # i
      BY <1>1, <1>2, <1>3, <2>1
    <3>3. {e \in Desc : active_slabs'[slab_index(e)] = 1} \ used'
            = {e \in (A \ used) \cup {d} : slab_index(e) # i}
      BY <1>1, <3>2
    <3>4. QED BY <3>1, <3>3
  <2>2. CASE n # 0
    <3>1. {e \in Desc : active_slabs'[slab_index(e)] = 1} \ used' = (A \ used) \cup {d}
      BY <1>1, <1>4, <2>2
    <3>2. QED BY <1>1, <1>8, <2>2, <3>1
  <2>3. QED BY <2>1, <2>2
<1>12. QED BY <1>7, <1>9, <1>10, <1>11 DEF Inv

LEMMA NextKeeps ==
  ASSUME Sizes, Inv, [AllocNext]_allocVars
  PROVE  Inv'
<1>1. CASE New
  BY <1>1, NewKeeps
<1>2. ASSUME NEW d \in Desc, Free(d) PROVE Inv'
  BY <1>2, FreeKeeps
<1>3. CASE NewFails \/ UNCHANGED allocVars
  <2>1. UNCHANGED <<free_list, active_slabs, task_count_in_slab, is_allocd, stack_base, used,
                    assertion>>
    BY <1>3 DEF NewFails, allocVars
  <2>2. Typed' /\ StacksDistinct'
    BY <2>1 DEF Inv, Typed, StacksDistinct
  <2>3. Counted'
    BY <2>1 DEF Inv, Counted, Tasks
  <2>4. Lists(free_list', {d \in Desc : active_slabs'[slab_index(d)] = 1} \ used')
    BY <2>1 DEF Inv
  <2>5. QED BY <2>2, <2>3, <2>4 DEF Inv
<1>4. QED BY <1>1, <1>2, <1>3 DEF AllocNext

-----------------------------------------------------------------------------
(* The results                                                             *)

\* The invariant says what the run checks.
LEMMA InvSound == ASSUME Sizes, Inv PROVE SlabsSound
<1>1. FreeListExact
  <2>1. free_list \in Seq(Desc)
    BY DEF Inv, Lists
  <2>2. DOMAIN free_list = 1 .. Len(free_list)
    BY <2>1
  <2>3. IsInjective(free_list)
    BY <2>2 DEF Inv, Lists, Distinct, IsInjective
  <2>4. Range(free_list) = {d \in Desc : active_slabs[slab_index(d)] = 1} \ used
    BY <2>2 DEF Inv, Lists, Elements, Range
  <2>5. \A i, j \in DOMAIN free_list :
          i < j => slab_index(free_list[i]) <= slab_index(free_list[j])
    BY <2>2 DEF Inv, Lists, Sorted
  <2>6. \A s \in Slab : active_slabs[s] = 1 <=> \E d \in used : slab_index(d) = s
    BY DEF Inv, Counted, Tasks
  <2>7. QED BY <2>3, <2>4, <2>5, <2>6 DEF FreeListExact
<1>2. StacksDistinct /\ NoAssertion
  BY DEF Inv, Typed, NoAssertion
<1>3. FailsOnlyWhenFull
  <2> SUFFICES ASSUME free_list = <<>>, FirstInactive = {} PROVE used = Desc
    BY DEF FailsOnlyWhenFull
  <2>1. {s \in Slab : active_slabs[s] = 0} = {}
    <3> DEFINE Z == {s \in Slab : active_slabs[s] = 0}
    <3> SUFFICES ASSUME Z # {} PROVE FALSE
      OBVIOUS
    <3>1. Z \in SUBSET Nat
      BY DEF Slab, Sizes
    <3>2. PICK m \in Z : \A k \in Z : m <= k
      <4> HIDE DEF Z
      <4>1. QED BY <3>1, NatMin
    <3>3. ASSUME NEW j \in 0 .. m - 1 PROVE active_slabs[j] # 0
      <4>1. j \in Slab /\ ~ (m <= j)
        BY <3>1 DEF Slab, Sizes
      <4>2. QED BY <3>2, <4>1
    <3>4. m \in FirstInactive
      BY <3>3 DEF FirstInactive
    <3>5. QED BY <3>4
  <2>2. Elements(free_list) = {}
    <3>1. Len(free_list) = 0
      OBVIOUS
    <3>2. QED BY <3>1 DEF Elements
  <2>3. \A d \in Desc : active_slabs[slab_index(d)] = 1
    BY <2>1, SlabIndex DEF Inv, Typed
  <2>4. QED BY <2>2, <2>3 DEF Inv, Typed, Lists
<1>4. QED BY <1>1, <1>2, <1>3 DEF SlabsSound

\* However tasks come and go: the free list is exact, live tasks have different
\* stacks, the kassert of stack_alloc_new holds, and task_alloc_new fails only
\* when every descriptor has a task.
THEOREM AllocatorsSound == ASSUME Sizes PROVE AllocSpec => []SlabsSound
<1>1. Inv /\ [AllocNext]_allocVars => Inv'
  BY NextKeeps
<1>2. Inv => SlabsSound
  BY InvSound
<1>3. QED BY InitInv, <1>1, <1>2, PTL DEF AllocSpec

\* Every step of the allocator is a step of the pool: task_alloc_new takes a
\* descriptor without a task, of an active slab if one has any.
LEMMA StepRefines ==
  ASSUME Sizes, Inv, [AllocNext]_allocVars
  PROVE  [Pool!PoolNew \/ Pool!PoolFree]_used
<1> DEFINE slab(s) == {s} \X (0 .. N_TASK_T - 1)
<1>1. ASSUME NEW d \in Desc, NEW s \in Slab
      PROVE  d \in slab(s) <=> slab_index(d) = s
  BY DEF Desc, slab_index
<1>2. Pool!ActiveSlabs = {slab(s) : s \in {x \in Slab : active_slabs[x] = 1}}
  <2>1. \A s \in Slab : slab(s) \cap used # {} <=> active_slabs[s] = 1
    <3>1. \A s \in Slab : slab(s) \cap used = Tasks(s)
      BY <1>1 DEF Tasks, Inv, Typed
    <3> HIDE DEF slab
    <3>2. QED BY <3>1 DEF Inv, Counted
  <2>2. Pool!ActiveSlabs = {x \in {slab(s) : s \in Slab} : x \cap used # {}}
    BY DEF Pool!ActiveSlabs
  <2> HIDE DEF slab
  <2>3. QED BY <2>1, <2>2
<1>3. Pool!FreeList = {d \in Desc : active_slabs[slab_index(d)] = 1} \ used
  <2>1. \A s \in Slab : slab(s) \subseteq Desc
    BY DEF Desc
  <2>2. \A d \in Desc : slab_index(d) \in Slab
    BY SlabIndex
  <2>3. Pool!FreeList = (UNION Pool!ActiveSlabs) \ used
    BY DEF Pool!FreeList
  <2> HIDE DEF slab
  <2>4. QED BY <1>1, <1>2, <2>1, <2>2, <2>3
<1>4. CASE New
  <2>1. PICK d \in Desc \ used :
          /\ used' = used \cup {d}
          /\ Lists(free_list', {e \in Desc : active_slabs'[slab_index(e)] = 1} \ used')
          /\ free_list # <<>> => active_slabs[slab_index(d)] = 1
          /\ free_list = <<>> => active_slabs[slab_index(d)] = 0
    BY <1>4, NewStep
  <2>2. slab_index(d) \in Slab
    BY SlabIndex
  <2>3. \E n \in Pool!NewDesc : n[1] = d
    <3>1. CASE free_list # <<>>
      <4>1. d \in Pool!FreeList
        BY <1>3, <2>1, <3>1
      <4>2. <<d, {d}>> \in Pool!NewDesc
        BY <4>1 DEF Pool!NewDesc
      <4>3. QED BY <4>2
    <3>2. CASE free_list = <<>>
      <4>1. Pool!FreeList = {}
        <5>1. Len(free_list) = 0
          BY <3>2
        <5>2. Elements(free_list) = {}
          BY <5>1 DEF Elements
        <5>3. QED BY <1>3, <5>2 DEF Inv, Lists
      <4>2. slab(slab_index(d)) \cap used = {}
        <5>1. Tasks(slab_index(d)) = {}
          BY <2>1, <2>2, <3>2 DEF Inv, Counted
        <5>2. \A e \in used : e \in Desc /\ slab_index(e) # slab_index(d)
          BY <5>1 DEF Tasks, Inv, Typed
        <5> HIDE DEF slab
        <5>3. QED BY <1>1, <2>2, <5>2
      <4>3. d \in slab(slab_index(d))
        BY <1>1, <2>2
      <4>4. <<d, slab(slab_index(d))>> \in Pool!NewDesc
        <5> HIDE DEF slab
        <5>1. slab(slab_index(d)) \in {slab(s) : s \in Slab} \ Pool!ActiveSlabs
          BY <2>2, <4>2 DEF Pool!ActiveSlabs
        <5>2. QED BY <4>1, <4>3, <5>1 DEF Pool!NewDesc, slab
      <4>5. QED BY <4>4
    <3>3. QED BY <3>1, <3>2
  <2>4. QED BY <2>1, <2>3 DEF Pool!PoolNew
<1>5. ASSUME NEW d \in Desc, Free(d)
      PROVE  Pool!PoolFree
  BY <1>5 DEF Free, Pool!PoolFree
<1>6. CASE NewFails \/ UNCHANGED allocVars
  BY <1>6 DEF NewFails, allocVars
<1>7. QED BY <1>4, <1>5, <1>6 DEF AllocNext

\* task-alloc.c implements the pool of descriptors that the kernel's model uses.
THEOREM AllocatorRefines == ASSUME Sizes PROVE AllocSpec => PoolRefines
<1>1. Inv /\ [AllocNext]_allocVars => Inv'
  BY NextKeeps
<1>2. Inv /\ [AllocNext]_allocVars => [Pool!PoolNew \/ Pool!PoolFree]_used
  BY StepRefines
<1>3. AllocInit => Pool!PoolInit
  BY DEF AllocInit, Pool!PoolInit
<1>4. QED BY InitInv, <1>1, <1>2, <1>3, PTL DEF AllocSpec, PoolRefines, Pool!PoolSpec

-----------------------------------------------------------------------------
(* The binary heap                                                         *)

Nodes == [value : Items, priority : Priorities]
Array(n) == [0 .. n - 1 -> Nodes]
Holds(h) == {h[i] : i \in DOMAIN h}

\* No child of a node from lo on has a lower priority than its parent.
Ordered(h, k) == h[PARENT(k)].priority <= h[k].priority
OrderedFrom(h, n, lo) == \A k \in 1 .. n - 1 : PARENT(k) >= lo => Ordered(h, k)

\* The array g holds what h holds.
SameNodes(h, g, n) == g \in Array(n) /\ DistinctValues(g) /\ Holds(g) = Holds(h)

LEMMA ParentIs ==
  ASSUME NEW k \in Int, k >= 1
  PROVE  PARENT(k) \in 0 .. k - 1 /\ (k = LEFT(PARENT(k)) \/ k = RIGHT(PARENT(k)))
BY DEF PARENT, LEFT, RIGHT

LEMMA ChildrenAre ==
  ASSUME NEW i \in Nat
  PROVE  /\ LEFT(i) \in Nat /\ LEFT(i) > i /\ LEFT(i) >= 2 * i + 1 /\ PARENT(LEFT(i)) = i
         /\ RIGHT(i) \in Nat /\ RIGHT(i) > i /\ RIGHT(i) >= 2 * i + 1 /\ PARENT(RIGHT(i)) = i
BY DEF PARENT, LEFT, RIGHT

LEMMA SizeIs ==
  ASSUME NEW n \in Nat, NEW S, NEW h \in [0 .. n - 1 -> S]
  PROVE  Size(h) = n /\ DOMAIN h = 0 .. n - 1
<1>1. Cardinality(0 .. n - 1) = IF 0 > n - 1 THEN 0 ELSE n - 1 - 0 + 1
  BY FS_Interval
<1>2. QED BY <1>1 DEF Size

LEMMA PrioritiesAre == \A p \in Priorities : p \in Nat
BY PrioritiesAssumption

LEMMA ArrayIs ==
  ASSUME NEW n \in Nat, NEW h \in Array(n)
  PROVE  DOMAIN h = 0 .. n - 1 /\ \A k \in 0 .. n - 1 : h[k] \in Nodes /\ h[k].priority \in Nat
<1>1. DOMAIN h = 0 .. n - 1 /\ \A k \in 0 .. n - 1 : h[k] \in Nodes
  BY DEF Array
<1>2. ASSUME NEW x \in Nodes PROVE x.priority \in Nat
  <2>1. x.priority \in Priorities
    BY DEF Nodes
  <2>2. QED BY <2>1, PrioritiesAre
<1>3. QED BY <1>1, <1>2

LEMMA SwapIs ==
  ASSUME NEW n \in Nat, NEW h \in Array(n), DistinctValues(h), NEW i \in 0 .. n - 1, NEW j \in 0 .. n - 1
  PROVE  /\ SameNodes(h, Swap(h, i, j), n)
         /\ \A k \in 0 .. n - 1 : Swap(h, i, j)[k] = IF k = j THEN h[i] ELSE IF k = i THEN h[j] ELSE h[k]
<1> DEFINE g == Swap(h, i, j)
<1>1. g \in Array(n) /\ \A k \in 0 .. n - 1 : g[k] = IF k = j THEN h[i] ELSE IF k = i THEN h[j] ELSE h[k]
  BY DEF Swap, Array
<1>2. DOMAIN h = 0 .. n - 1 /\ DOMAIN g = 0 .. n - 1
  BY <1>1 DEF Array
<1> HIDE DEF g
<1>3. DistinctValues(g)
  BY <1>1, <1>2 DEF DistinctValues
<1>4. Holds(g) = Holds(h)
  <2>1. ASSUME NEW k \in 0 .. n - 1 PROVE g[k] \in Holds(h)
    BY <1>1, <1>2 DEF Holds
  <2>2. ASSUME NEW k \in 0 .. n - 1 PROVE h[k] \in Holds(g)
    <3>1. CASE k = i
      BY <1>1, <1>2, <3>1 DEF Holds
    <3>2. CASE k = j
      BY <1>1, <1>2, <3>2 DEF Holds
    <3>3. CASE k # i /\ k # j
      BY <1>1, <1>2, <3>3 DEF Holds
    <3>4. QED BY <3>1, <3>2, <3>3
  <2>3. QED BY <1>2, <2>1, <2>2 DEF Holds
<1>5. QED BY <1>1, <1>3, <1>4 DEF g, SameNodes

LEMMA LoopTo ==
  ASSUME NEW n \in Nat, NEW T, 0 \in T, \A k \in 1 .. n : k - 1 \in T => k \in T
  PROVE  \A k \in 0 .. n : k \in T
<1> DEFINE F == {k \in 0 .. n : k \notin T}
<1>1. SUFFICES ASSUME F # {} PROVE FALSE
  OBVIOUS
<1>2. PICK m \in F : \A k \in F : m <= k
  <2>1. F \in SUBSET Nat
    OBVIOUS
  <2> HIDE DEF F
  <2>2. QED BY <1>1, <2>1, NatMin
<1>3. m \in 1 .. n /\ m \notin T /\ m - 1 \in 0 .. n
  BY <1>2
<1>4. m - 1 \in T
  BY <1>2, <1>3
<1>5. QED BY <1>3, <1>4

\* What a loop over the levels of a heap leaves behind after each of them
LEMMA LevelsLoop ==
  ASSUME NEW T, NEW a \in T, NEW g \in [1 .. Levels -> [T -> T]]
  PROVE  \E f : IsLoop(f, Levels, T, a, g)
<1>1. Levels \in Nat
  BY DEF Levels
<1>2. QED BY <1>1, LoopExists, Zenon

\* The powers of two
LEMMA Powers ==
  \E f \in [0 .. Levels -> Nat] :
    f[0] = 1 /\ f[Levels] = 32768 /\ \A k \in 1 .. Levels : f[k] = 2 * f[k - 1]
<1> DEFINE g == [k \in 1 .. Levels |-> [x \in Nat |-> 2 * x]]
<1>1. Levels \in Nat /\ Levels = 15 /\ g \in [1 .. Levels -> [Nat -> Nat]] /\ 1 \in Nat
  BY DEF Levels
<1>2. PICK f : IsLoop(f, Levels, Nat, 1, g)
  <2> HIDE DEF g
  <2>1. QED BY <1>1, LoopExists
<1>3. f \in [0 .. 15 -> Nat] /\ f[0] = 1 /\ \A k \in 1 .. 15 : f[k] = g[k][f[k - 1]]
  <2> HIDE DEF g
  <2>1. QED BY <1>1, <1>2 DEF IsLoop
<1>4. \A k \in 1 .. 15 : f[k] = 2 * f[k - 1]
  BY <1>1, <1>3
<1>5. f[1] = 2 /\ f[2] = 4 /\ f[3] = 8 /\ f[4] = 16 /\ f[5] = 32
  <2>1. f[1] = 2 * f[0] /\ f[2] = 2 * f[1] /\ f[3] = 2 * f[2] /\ f[4] = 2 * f[3] /\ f[5] = 2 * f[4]
    BY <1>4
  <2>2. QED BY <1>3, <2>1
<1>6. f[6] = 64 /\ f[7] = 128 /\ f[8] = 256 /\ f[9] = 512 /\ f[10] = 1024
  <2>1. f[6] = 2 * f[5] /\ f[7] = 2 * f[6] /\ f[8] = 2 * f[7] /\ f[9] = 2 * f[8] /\ f[10] = 2 * f[9]
    BY <1>4
  <2>2. QED BY <1>5, <2>1
<1>7. f[11] = 2048 /\ f[12] = 4096 /\ f[13] = 8192 /\ f[14] = 16384 /\ f[15] = 32768
  <2>1. f[11] = 2 * f[10] /\ f[12] = 2 * f[11] /\ f[13] = 2 * f[12] /\ f[14] = 2 * f[13] /\ f[15] = 2 * f[14]
    BY <1>4
  <2>2. QED BY <1>6, <2>1
<1>8. QED BY <1>1, <1>3, <1>4, <1>7

-----------------------------------------------------------------------------
(* priority_queue_bubble_up                                                *)

\* Only the node at i may be lower than its parent, and its children are not lower
\* than that.
LowAt(h, n, i) ==
  /\ i \in 0 .. n - 1
  /\ \A k \in 1 .. n - 1 : k # i => Ordered(h, k)
  /\ i > 0 => \A k \in 1 .. n - 1 : PARENT(k) = i => h[PARENT(i)].priority <= h[k].priority

LEMMA RiseKeeps ==
  ASSUME NEW n \in Nat, NEW h \in Array(n), DistinctValues(h), NEW i \in 0 .. n - 1, LowAt(h, n, i)
  PROVE  LET r == Rise([heap |-> h, at |-> i])
         IN \/ r = [heap |-> h, at |-> i] /\ OrderedFrom(h, n, 0)
            \/ \E g \in Array(n) : /\ r = [heap |-> g, at |-> PARENT(i)] /\ SameNodes(h, g, n)
                                   /\ LowAt(g, n, PARENT(i)) /\ i > 0
<1>0. DOMAIN h = 0 .. n - 1 /\ \A k \in 0 .. n - 1 : h[k].priority \in Nat
  BY ArrayIs
<1> DEFINE q == PARENT(i)
           g == Swap(h, q, i)
<1>1. CASE ~(h[q].priority > h[i].priority)
  <2>1. Rise([heap |-> h, at |-> i]) = [heap |-> h, at |-> i]
    BY <1>1 DEF Rise
  <2>2. i > 0 => q \in 0 .. i - 1
    BY ParentIs
  <2>3. i > 0 => Ordered(h, i)
    BY <1>0, <1>1, <2>2 DEF Ordered
  <2>4. OrderedFrom(h, n, 0)
    BY <2>3 DEF OrderedFrom, LowAt
  <2>5. QED BY <2>1, <2>4
<1>2. CASE h[q].priority > h[i].priority
  <2>1. Rise([heap |-> h, at |-> i]) = [heap |-> g, at |-> q]
    BY <1>2 DEF Rise
  <2>2. i > 0
    <3>1. i # 0
      BY <1>0, <1>2 DEF PARENT
    <3>2. QED BY <3>1
  <2>3. q \in 0 .. i - 1
    BY <2>2, ParentIs
  <2> HIDE DEF q
  <2>4. SameNodes(h, g, n) /\ \A k \in 0 .. n - 1 : g[k] = IF k = i THEN h[q] ELSE IF k = q THEN h[i] ELSE h[k]
    BY <2>3, SwapIs
  <2> HIDE DEF g
  <2>5. q # i /\ q \in 0 .. n - 1 /\ g[i] = h[q] /\ g[q] = h[i]
    BY <2>3, <2>4
  <2>6. \A k \in 1 .. n - 1 : PARENT(k) \in 0 .. k - 1 /\ PARENT(k) \in 0 .. n - 1
    BY ParentIs
  <2>7. ASSUME NEW k \in 1 .. n - 1, k # q PROVE g[PARENT(k)].priority <= g[k].priority
    <3>1. CASE k = i
      BY <1>0, <1>2, <2>5, <3>1 DEF q
    <3>2. CASE k # i /\ PARENT(k) = i
      <4>1. h[q].priority <= h[k].priority
        BY <2>2, <3>2 DEF LowAt, q
      <4>2. g[k] = h[k]
        BY <2>4, <2>7, <3>2
      <4>3. QED BY <2>5, <3>2, <4>1, <4>2
    <3>3. CASE k # i /\ PARENT(k) = q
      <4>1. h[q].priority <= h[k].priority
        BY <3>3 DEF LowAt, Ordered
      <4>2. g[k] = h[k]
        BY <2>4, <2>7, <3>3
      <4>3. QED BY <1>0, <1>2, <2>5, <3>3, <4>1, <4>2
    <3>4. CASE k # i /\ PARENT(k) # i /\ PARENT(k) # q
      <4>1. h[PARENT(k)].priority <= h[k].priority
        BY <3>4 DEF LowAt, Ordered
      <4>2. g[k] = h[k] /\ g[PARENT(k)] = h[PARENT(k)]
        BY <2>4, <2>6, <2>7, <3>4
      <4>3. QED BY <4>1, <4>2
    <3>5. QED BY <3>1, <3>2, <3>3, <3>4
  <2>8. ASSUME q > 0, NEW k \in 1 .. n - 1, PARENT(k) = q PROVE g[PARENT(q)].priority <= g[k].priority
    <3>1. PARENT(q) \in 0 .. q - 1 /\ PARENT(q) \in 0 .. n - 1 /\ q \in 1 .. n - 1
      BY <2>3, <2>8, ParentIs
    <3>2. g[PARENT(q)] = h[PARENT(q)]
      BY <2>3, <2>4, <3>1
    <3>3. h[PARENT(q)].priority <= h[q].priority
      BY <2>5, <3>1 DEF LowAt, Ordered
    <3>4. CASE k = i
      BY <2>5, <3>2, <3>3, <3>4
    <3>5. CASE k # i
      <4>1. h[q].priority <= h[k].priority
        BY <2>8, <3>5 DEF LowAt, Ordered
      <4>2. k # q
        BY <2>6, <2>8
      <4>3. g[k] = h[k]
        BY <2>4, <3>5, <4>2
      <4>4. QED BY <1>0, <2>5, <3>1, <3>2, <3>3, <4>1, <4>3
    <3>6. QED BY <3>4, <3>5
  <2>9. LowAt(g, n, q)
    BY <2>5, <2>7, <2>8 DEF LowAt, Ordered
  <2>10. g \in Array(n)
    BY <2>4 DEF SameNodes
  <2>11. QED BY <2>1, <2>2, <2>4, <2>9, <2>10 DEF q
<1>3. QED BY <1>1, <1>2

LEMMA BubbleUpOrders ==
  ASSUME NEW n \in Nat, n <= 32768, NEW h \in Array(n), DistinctValues(h), NEW i \in 0 .. n - 1, LowAt(h, n, i)
  PROVE  SameNodes(h, BubbleUp(h, i), n) /\ OrderedFrom(BubbleUp(h, i), n, 0)
<1> DEFINE S == [heap : Array(n), at : 0 .. n - 1]
           a == [heap |-> h, at |-> i]
           step(f) == [k \in 0 .. Levels |-> IF k = 0 THEN a ELSE Rise(f[k - 1])]
           risen == CHOOSE f : f = step(f)
           Good(s) == /\ s \in S /\ SameNodes(h, s.heap, n)
                      /\ LowAt(s.heap, n, s.at) \/ OrderedFrom(s.heap, n, 0)
           T == {s \in S : Good(s)}
<1>1. BubbleUp(h, i) = risen[Levels].heap
  BY DEF BubbleUp
<1>2. Levels \in Nat /\ Levels = 15
  BY DEF Levels
<1>3. ASSUME NEW s \in T
      PROVE  /\ Rise(s) \in T
             /\ OrderedFrom(s.heap, n, 0) => Rise(s) = s
             /\ ~OrderedFrom(s.heap, n, 0) => s.at > 0 /\ Rise(s).at = PARENT(s.at)
  <2>1. PICK u, j : u = s.heap /\ j = s.at
    OBVIOUS
  <2>2. /\ u \in Array(n) /\ j \in 0 .. n - 1 /\ s = [heap |-> u, at |-> j] /\ SameNodes(h, u, n)
        /\ LowAt(u, n, j) \/ OrderedFrom(u, n, 0)
    BY <2>1
  <2>3. DistinctValues(u)
    BY <2>2 DEF SameNodes
  <2>4. CASE OrderedFrom(u, n, 0)
    <3>1. ~(u[PARENT(j)].priority > u[j].priority)
      <4>1. j \in 0 .. n - 1 /\ \A k \in 0 .. n - 1 : u[k].priority \in Nat
        BY <2>2, ArrayIs
      <4>2. CASE j = 0
        BY <4>1, <4>2 DEF PARENT
      <4>3. CASE j # 0
        <5>1. j \in 1 .. n - 1 /\ PARENT(j) \in 0 .. j - 1
          BY <4>1, <4>3, ParentIs
        <5>2. u[PARENT(j)].priority <= u[j].priority
          BY <2>4, <5>1 DEF OrderedFrom, Ordered
        <5>3. QED BY <4>1, <5>1, <5>2
      <4>4. QED BY <4>2, <4>3
    <3>2. Rise(s) = s
      BY <2>1, <3>1 DEF Rise
    <3>3. QED BY <2>1, <2>4, <3>2
  <2>5. CASE ~OrderedFrom(u, n, 0)
    <3>1. PICK g \in Array(n) : /\ Rise(s) = [heap |-> g, at |-> PARENT(j)] /\ SameNodes(u, g, n)
                                /\ LowAt(g, n, PARENT(j)) /\ j > 0
      BY <2>2, <2>3, <2>5, RiseKeeps
    <3>2. SameNodes(h, g, n) /\ PARENT(j) \in 0 .. n - 1
      BY <2>2, <3>1 DEF SameNodes, LowAt
    <3>3. Rise(s) \in S /\ Rise(s).heap = g /\ Rise(s).at = PARENT(j)
      BY <3>1, <3>2
    <3>4. Rise(s) \in T
      BY <3>1, <3>2, <3>3
    <3>5. QED BY <2>1, <2>5, <3>1, <3>3, <3>4
  <2>6. QED BY <2>4, <2>5
<1>4. a \in T
  <2>1. SameNodes(h, h, n)
    BY DEF SameNodes
  <2>2. QED BY <2>1
<1> DEFINE g == [k \in 1 .. Levels |-> [s \in T |-> Rise(s)]]
<1>5. g \in [1 .. Levels -> [T -> T]]
  <2> HIDE DEF T
  <2>1. QED BY <1>3
<1>6. \A k \in 1 .. Levels, x \in T : g[k][x] = Rise(x)
  <2> HIDE DEF T
  <2>1. QED OBVIOUS
<1> HIDE DEF T, a, g
<1>7. PICK f0 : IsLoop(f0, Levels, T, a, g)
  BY <1>4, <1>5, LevelsLoop
<1>8. f0 \in [0 .. Levels -> T] /\ f0[0] = a /\ \A k \in 1 .. Levels : f0[k] = g[k][f0[k - 1]]
  BY <1>7 DEF IsLoop
<1>9. risen = step(risen)
  <2>1. ASSUME NEW k \in 0 .. Levels PROVE f0[k] = step(f0)[k]
    <3>1. CASE k = 0
      BY <1>8, <3>1
    <3>2. CASE k # 0
      <4>1. k \in 1 .. Levels /\ k - 1 \in 0 .. Levels
        BY <1>2, <3>2
      <4>2. f0[k - 1] \in T
        BY <1>8, <4>1
      <4>3. f0[k] = Rise(f0[k - 1])
        BY <1>8, <1>6, <4>1, <4>2
      <4>4. QED BY <3>2, <4>3
    <3>3. QED BY <3>1, <3>2
  <2>2. step(f0) = [k \in 0 .. Levels |-> step(f0)[k]]
    OBVIOUS
  <2>3. f0 = step(f0)
    <3> HIDE DEF step
    <3>1. QED BY <1>8, <2>1, <2>2
  <2> HIDE DEF step
  <2>4. QED BY <2>3
<1> HIDE DEF risen
<1>10. risen[0] = a /\ \A k \in 1 .. 15 : risen[k] = Rise(risen[k - 1])
  BY <1>2, <1>9
<1>11. PICK f \in [0 .. 15 -> Nat] : f[0] = 1 /\ f[15] = 32768 /\ \A k \in 1 .. 15 : f[k] = 2 * f[k - 1]
  BY <1>2, Powers
<1> DEFINE K == {k \in 0 .. 15 : risen[k] \in T /\ (OrderedFrom(risen[k].heap, n, 0) \/ risen[k].at < f[15 - k])}
<1>12. 0 \in K
  <2>1. a.at = i /\ i < 32768
    BY DEF a
  <2>2. QED BY <1>4, <1>10, <1>11, <2>1
<1>13. ASSUME NEW k \in 1 .. 15, k - 1 \in K PROVE k \in K
  <2>1. PICK s \in T : s = risen[k - 1]
    BY <1>13
  <2>2. risen[k] = Rise(s)
    BY <1>10, <2>1
  <2>3. CASE OrderedFrom(s.heap, n, 0)
    BY <1>3, <2>2, <2>3
  <2>4. CASE ~OrderedFrom(s.heap, n, 0)
    <3>1. s.at < f[15 - (k - 1)] /\ s.at \in Nat
      BY <1>13, <2>1, <2>4 DEF T
    <3>2. f[15 - (k - 1)] = 2 * f[15 - k] /\ f[15 - k] \in Nat
      <4>1. 15 - (k - 1) \in 1 .. 15 /\ 15 - (k - 1) - 1 = 15 - k
        OBVIOUS
      <4>2. QED BY <1>11, <4>1
    <3>3. s.at > 0 /\ Rise(s).at = PARENT(s.at) /\ Rise(s) \in T
      BY <1>3, <2>4
    <3>4. PARENT(s.at) < f[15 - k]
      <4>1. s.at >= 1 /\ PARENT(s.at) \in 0 .. s.at - 1 /\ (s.at = LEFT(PARENT(s.at)) \/ s.at = RIGHT(PARENT(s.at)))
        BY <3>1, <3>3, ParentIs
      <4>2. 2 * PARENT(s.at) < s.at /\ PARENT(s.at) \in Nat
        BY <4>1 DEF LEFT, RIGHT
      <4>3. QED BY <3>1, <3>2, <4>2
    <3>5. QED BY <2>2, <3>3, <3>4
  <2>5. QED BY <2>3, <2>4
<1>14. 15 \in K
  <2> HIDE DEF K
  <2>1. \A k \in 0 .. 15 : k \in K
    BY <1>12, <1>13, LoopTo
  <2>2. QED BY <2>1
<1>15. PICK s \in T : s = risen[15]
  BY <1>14
<1>16. OrderedFrom(s.heap, n, 0)
  <2>1. OrderedFrom(s.heap, n, 0) \/ s.at < f[15 - 15]
    BY <1>14, <1>15
  <2>2. f[15 - 15] = 1
    BY <1>11
  <2>3. ASSUME ~OrderedFrom(s.heap, n, 0) PROVE FALSE
    <3>1. s.at > 0 /\ s.at \in Nat
      BY <1>3, <2>3 DEF T
    <3>2. QED BY <2>1, <2>2, <2>3, <3>1
  <2>4. QED BY <2>3
<1>17. SameNodes(h, s.heap, n)
  BY DEF T
<1>18. QED BY <1>1, <1>2, <1>15, <1>16, <1>17

-----------------------------------------------------------------------------
(* heapify                                                                 *)

LEMMA LeastIs ==
  ASSUME NEW n \in Nat, NEW h \in Array(n), NEW i \in Nat, NEW m, m = Least(h, i)
  PROVE  /\ m # i => /\ i < n /\ m \in 1 .. n - 1 /\ PARENT(m) = i
                     /\ h[m].priority < h[i].priority
         /\ m \in Nat
         /\ \A k \in 1 .. n - 1 : PARENT(k) = i => h[m].priority <= h[k].priority
<1>1. DOMAIN h = 0 .. n - 1 /\ \A k \in 0 .. n - 1 : h[k].priority \in Nat
  BY ArrayIs
<1> DEFINE l == LEFT(i)
           r == RIGHT(i)
           m1 == IF l \in DOMAIN h /\ h[l].priority < h[i].priority THEN l ELSE i
<1>2. l \in Nat /\ l > i /\ PARENT(l) = i /\ r \in Nat /\ r > i /\ PARENT(r) = i
  BY ChildrenAre
<1>3. m = IF r \in DOMAIN h /\ h[r].priority < h[m1].priority THEN r ELSE m1
  BY DEF Least
<1>4. \A k \in 1 .. n - 1 : PARENT(k) = i => k \in {l, r}
  BY ParentIs
<1> HIDE DEF l, r
<1>5. m1 \in Nat /\ (m1 = i \/ (m1 = l /\ l \in 0 .. n - 1 /\ h[l].priority < h[i].priority))
  BY <1>1, <1>2
<1>6. l \in 0 .. n - 1 => h[m1].priority <= h[l].priority
  BY <1>1, <1>2
<1> HIDE DEF m1
<1>7. m \in Nat /\ (m = m1 \/ (m = r /\ r \in 0 .. n - 1 /\ h[r].priority < h[m1].priority))
  BY <1>1, <1>2, <1>3, <1>5
<1>8. r \in 0 .. n - 1 => h[m].priority <= h[r].priority
  BY <1>1, <1>2, <1>3, <1>5
<1>9. l \in 0 .. n - 1 => h[m].priority <= h[l].priority
  <2>1. l \in 0 .. n - 1 => i \in 0 .. n - 1
    BY <1>2
  <2>2. CASE m = m1
    BY <1>6, <2>2
  <2>3. CASE m # m1
    BY <1>1, <1>5, <1>6, <1>7, <2>1, <2>3
  <2>4. QED BY <2>2, <2>3
<1>10. ASSUME m # i
       PROVE  i < n /\ m \in 1 .. n - 1 /\ PARENT(m) = i /\ h[m].priority < h[i].priority
  <2>1. CASE m = l
    BY <1>1, <1>2, <1>5, <1>7, <1>10, <2>1
  <2>2. CASE m = r /\ r \in 0 .. n - 1 /\ h[r].priority < h[m1].priority
    <3>1. i \in 0 .. n - 1 /\ m \in 1 .. n - 1
      BY <1>2, <2>2
    <3>2. h[m1].priority <= h[i].priority
      BY <1>1, <1>5, <3>1
    <3>3. m1 \in 0 .. n - 1
      BY <1>5, <3>1
    <3>4. QED BY <1>1, <1>2, <2>2, <3>1, <3>2, <3>3
  <2>3. QED BY <1>5, <1>7, <1>10, <2>1, <2>2
<1>11. QED BY <1>4, <1>7, <1>8, <1>9, <1>10

\* Only the node at i may be higher than its children, and its parent is not higher
\* than those.
HighAt(h, n, lo, i) ==
  /\ i \in lo .. n
  /\ \A k \in 1 .. n - 1 : PARENT(k) >= lo /\ PARENT(k) # i => Ordered(h, k)
  /\ i > 0 /\ PARENT(i) >= lo => \A k \in 1 .. n - 1 : PARENT(k) = i => h[PARENT(i)].priority <= h[k].priority

LEMMA SinkKeeps ==
  ASSUME NEW n \in Nat, NEW h \in Array(n), DistinctValues(h), NEW lo \in Nat, NEW i \in Nat, HighAt(h, n, lo, i)
  PROVE  LET r == Sink([heap |-> h, at |-> i])
         IN \/ r = [heap |-> h, at |-> i] /\ OrderedFrom(h, n, lo)
            \/ \E g \in Array(n), m \in 1 .. n - 1 :
                 /\ r = [heap |-> g, at |-> m] /\ SameNodes(h, g, n)
                 /\ HighAt(g, n, lo, m) /\ PARENT(m) = i
<1>0. DOMAIN h = 0 .. n - 1 /\ \A k \in 0 .. n - 1 : h[k].priority \in Nat
  BY ArrayIs
<1>1. PICK m : m = Least(h, i)
  OBVIOUS
<1>2. /\ m # i => /\ i < n /\ m \in 1 .. n - 1 /\ PARENT(m) = i
                  /\ h[m].priority < h[i].priority
      /\ m \in Nat
      /\ \A k \in 1 .. n - 1 : PARENT(k) = i => h[m].priority <= h[k].priority
  BY <1>1, LeastIs
<1>3. CASE m = i
  <2>1. Sink([heap |-> h, at |-> i]) = [heap |-> h, at |-> i]
    BY <1>1, <1>3 DEF Sink
  <2>2. OrderedFrom(h, n, lo)
    BY <1>2, <1>3 DEF OrderedFrom, HighAt, Ordered
  <2>3. QED BY <2>1, <2>2
<1>4. CASE m # i
  <2> DEFINE g == Swap(h, i, m)
  <2>1. Sink([heap |-> h, at |-> i]) = [heap |-> g, at |-> m]
    BY <1>1, <1>4 DEF Sink
  <2>2. i \in 0 .. n - 1 /\ m \in 1 .. n - 1 /\ PARENT(m) = i /\ i < m /\ i >= lo
    BY <1>2, <1>4, ParentIs DEF HighAt
  <2>3. SameNodes(h, g, n) /\ \A k \in 0 .. n - 1 : g[k] = IF k = m THEN h[i] ELSE IF k = i THEN h[m] ELSE h[k]
    BY <2>2, SwapIs
  <2> HIDE DEF g
  <2>4. g[i] = h[m] /\ g[m] = h[i] /\ h[m].priority < h[i].priority
    BY <1>2, <2>2, <2>3
  <2>5. \A k \in 1 .. n - 1 : PARENT(k) \in 0 .. k - 1 /\ PARENT(k) \in 0 .. n - 1 /\ k \in 0 .. n - 1
    BY ParentIs
  <2>6. ASSUME NEW k \in 1 .. n - 1, PARENT(k) >= lo, PARENT(k) # m PROVE g[PARENT(k)].priority <= g[k].priority
    <3>1. CASE k = m
      BY <1>0, <2>2, <2>4, <3>1
    <3>2. CASE k # m /\ PARENT(k) = i
      <4>1. h[m].priority <= h[k].priority /\ k # i
        BY <1>2, <2>5, <3>2
      <4>2. g[k] = h[k]
        BY <2>3, <2>5, <3>2, <4>1
      <4>3. QED BY <2>4, <3>2, <4>1, <4>2
    <3>3. CASE k = i
      <4>1. h[PARENT(i)].priority <= h[m].priority
        BY <2>2, <2>6, <3>3 DEF HighAt
      <4>2. g[PARENT(i)] = h[PARENT(i)]
        BY <2>2, <2>3, <2>5, <3>3
      <4>3. QED BY <2>4, <3>3, <4>1, <4>2
    <3>4. CASE k # m /\ PARENT(k) # i /\ k # i
      <4>1. h[PARENT(k)].priority <= h[k].priority
        BY <2>6, <3>4 DEF HighAt, Ordered
      <4>2. g[k] = h[k]
        BY <2>3, <2>5, <3>4
      <4>3. g[PARENT(k)] = h[PARENT(k)]
        BY <2>3, <2>5, <2>6, <3>4
      <4>4. QED BY <4>1, <4>2, <4>3
    <3>5. QED BY <3>1, <3>2, <3>3, <3>4
  <2>7. ASSUME NEW k \in 1 .. n - 1, PARENT(k) = m PROVE g[PARENT(m)].priority <= g[k].priority
    <3>1. k > m /\ k # m /\ k # i
      BY <2>2, <2>5, <2>7
    <3>2. g[k] = h[k]
      BY <2>3, <2>5, <3>1
    <3>3. h[m].priority <= h[k].priority
      BY <2>2, <2>7 DEF HighAt, Ordered
    <3>4. QED BY <2>2, <2>4, <3>2, <3>3
  <2>8. HighAt(g, n, lo, m)
    BY <2>2, <2>6, <2>7 DEF HighAt, Ordered
  <2>9. g \in Array(n)
    BY <2>3 DEF SameNodes
  <2>10. QED BY <2>1, <2>2, <2>3, <2>8, <2>9
<1>5. QED BY <1>3, <1>4

LEMMA HeapifyOrders ==
  ASSUME NEW n \in Nat, n <= 32767, NEW h \in Array(n), DistinctValues(h), NEW i \in Nat, HighAt(h, n, i, i)
  PROVE  SameNodes(h, Heapify(h, i), n) /\ OrderedFrom(Heapify(h, i), n, i)
<1> DEFINE S == [heap : Array(n), at : i .. n]
           a == [heap |-> h, at |-> i]
           step(f) == [k \in 0 .. Levels |-> IF k = 0 THEN a ELSE Sink(f[k - 1])]
           sunk == CHOOSE f : f = step(f)
           Good(s) == /\ s \in S /\ SameNodes(h, s.heap, n)
                      /\ HighAt(s.heap, n, i, s.at) \/ OrderedFrom(s.heap, n, i)
           T == {s \in S : Good(s)}
<1>1. Heapify(h, i) = sunk[Levels].heap
  BY DEF Heapify
<1>2. Levels \in Nat /\ Levels = 15
  BY DEF Levels
<1>3. ASSUME NEW s \in T
      PROVE  /\ Sink(s) \in T
             /\ OrderedFrom(s.heap, n, i) => Sink(s) = s
             /\ ~OrderedFrom(s.heap, n, i) => s.at < n /\ Sink(s).at >= 2 * s.at + 1
  <2>1. PICK u, j : u = s.heap /\ j = s.at
    OBVIOUS
  <2>2. /\ u \in Array(n) /\ j \in i .. n /\ s = [heap |-> u, at |-> j] /\ SameNodes(h, u, n)
        /\ HighAt(u, n, i, j) \/ OrderedFrom(u, n, i)
    BY <2>1
  <2>3. DistinctValues(u)
    BY <2>2 DEF SameNodes
  <2>4. CASE OrderedFrom(u, n, i)
    <3>1. Least(u, j) = j
      <4>1. PICK m : m = Least(u, j)
        OBVIOUS
      <4>2. m # j => /\ m \in 1 .. n - 1 /\ PARENT(m) = j /\ u[m].priority < u[j].priority
                     /\ j < n
        BY <2>2, <4>1, LeastIs
      <4>3. ASSUME m # j PROVE FALSE
        <5>1. u[j].priority <= u[m].priority
          BY <2>2, <2>4, <4>2, <4>3 DEF OrderedFrom, Ordered
        <5>2. u[j].priority \in Nat /\ u[m].priority \in Nat
          BY <2>2, <4>2, <4>3, ArrayIs
        <5>3. QED BY <4>2, <4>3, <5>1, <5>2
      <4>4. QED BY <4>1, <4>3
    <3>2. Sink(s) = s
      BY <2>1, <3>1 DEF Sink
    <3>3. QED BY <2>1, <2>4, <3>2
  <2>5. CASE ~OrderedFrom(u, n, i)
    <3>1. PICK g \in Array(n), m \in 1 .. n - 1 :
            /\ Sink(s) = [heap |-> g, at |-> m] /\ SameNodes(u, g, n)
            /\ HighAt(g, n, i, m) /\ PARENT(m) = j
      BY <2>2, <2>3, <2>5, SinkKeeps
    <3>2. SameNodes(h, g, n) /\ m \in i .. n
      BY <2>2, <3>1 DEF SameNodes, HighAt
    <3>3. Sink(s) \in S /\ Sink(s).heap = g /\ Sink(s).at = m
      BY <3>1, <3>2
    <3>4. Sink(s) \in T
      BY <3>1, <3>2, <3>3
    <3>5. m >= 2 * j + 1 /\ j < n
      BY <2>2, <3>1, ParentIs DEF LEFT, RIGHT
    <3>6. QED BY <2>1, <2>5, <3>3, <3>4, <3>5
  <2>6. QED BY <2>4, <2>5
<1>4. a \in T
  <2>1. SameNodes(h, h, n)
    BY DEF SameNodes
  <2>2. i \in i .. n
    BY DEF HighAt
  <2>3. QED BY <2>1, <2>2
<1> DEFINE g == [k \in 1 .. Levels |-> [s \in T |-> Sink(s)]]
<1>5. g \in [1 .. Levels -> [T -> T]]
  <2> HIDE DEF T
  <2>1. QED BY <1>3
<1>6. \A k \in 1 .. Levels, x \in T : g[k][x] = Sink(x)
  <2> HIDE DEF T
  <2>1. QED OBVIOUS
<1> HIDE DEF T, a, g
<1>7. PICK f0 : IsLoop(f0, Levels, T, a, g)
  BY <1>4, <1>5, LevelsLoop
<1>8. f0 \in [0 .. Levels -> T] /\ f0[0] = a /\ \A k \in 1 .. Levels : f0[k] = g[k][f0[k - 1]]
  BY <1>7 DEF IsLoop
<1>9. sunk = step(sunk)
  <2>1. ASSUME NEW k \in 0 .. Levels PROVE f0[k] = step(f0)[k]
    <3>1. CASE k = 0
      BY <1>8, <3>1
    <3>2. CASE k # 0
      <4>1. k \in 1 .. Levels /\ k - 1 \in 0 .. Levels
        BY <1>2, <3>2
      <4>2. f0[k - 1] \in T
        BY <1>8, <4>1
      <4>3. f0[k] = Sink(f0[k - 1])
        BY <1>8, <1>6, <4>1, <4>2
      <4>4. QED BY <3>2, <4>3
    <3>3. QED BY <3>1, <3>2
  <2>2. step(f0) = [k \in 0 .. Levels |-> step(f0)[k]]
    OBVIOUS
  <2>3. f0 = step(f0)
    <3> HIDE DEF step
    <3>1. QED BY <1>8, <2>1, <2>2
  <2> HIDE DEF step
  <2>4. QED BY <2>3
<1> HIDE DEF sunk
<1>10. sunk[0] = a /\ \A k \in 1 .. 15 : sunk[k] = Sink(sunk[k - 1])
  BY <1>2, <1>9
<1>11. PICK f \in [0 .. 15 -> Nat] : f[0] = 1 /\ f[15] = 32768 /\ \A k \in 1 .. 15 : f[k] = 2 * f[k - 1]
  BY <1>2, Powers
<1> DEFINE K == {k \in 0 .. 15 : sunk[k] \in T /\ (OrderedFrom(sunk[k].heap, n, i) \/ sunk[k].at + 1 >= f[k])}
<1>12. 0 \in K
  <2>1. a.at = i /\ i + 1 >= 1
    BY DEF a
  <2>2. QED BY <1>4, <1>10, <1>11, <2>1
<1>13. ASSUME NEW k \in 1 .. 15, k - 1 \in K PROVE k \in K
  <2>1. PICK s \in T : s = sunk[k - 1]
    BY <1>13
  <2>2. sunk[k] = Sink(s)
    BY <1>10, <2>1
  <2>3. CASE OrderedFrom(s.heap, n, i)
    BY <1>3, <2>2, <2>3
  <2>4. CASE ~OrderedFrom(s.heap, n, i)
    <3>1. s.at + 1 >= f[k - 1] /\ s.at \in Nat
      BY <1>13, <2>1, <2>4 DEF T
    <3>2. f[k] = 2 * f[k - 1] /\ f[k - 1] \in Nat
      BY <1>11
    <3>3. Sink(s).at >= 2 * s.at + 1 /\ Sink(s) \in T
      BY <1>3, <2>4
    <3>4. Sink(s).at \in Nat
      BY <3>3 DEF T
    <3>5. Sink(s).at + 1 >= f[k]
      BY <3>1, <3>2, <3>3, <3>4
    <3>6. QED BY <2>2, <3>3, <3>5
  <2>5. QED BY <2>3, <2>4
<1>14. 15 \in K
  <2> HIDE DEF K
  <2>1. \A k \in 0 .. 15 : k \in K
    BY <1>12, <1>13, LoopTo
  <2>2. QED BY <2>1
<1>15. PICK s \in T : s = sunk[15]
  BY <1>14
<1>16. OrderedFrom(s.heap, n, i)
  <2>1. OrderedFrom(s.heap, n, i) \/ s.at + 1 >= f[15]
    BY <1>14, <1>15
  <2>2. ASSUME ~OrderedFrom(s.heap, n, i) PROVE FALSE
    <3>1. s.at < n /\ s.at \in Nat
      BY <1>3, <2>2 DEF T
    <3>2. QED BY <1>11, <2>1, <2>2, <3>1
  <2>3. QED BY <2>2
<1>17. SameNodes(h, s.heap, n)
  BY DEF T
<1>18. QED BY <1>1, <1>2, <1>15, <1>16, <1>17

\* priority_queue_init orders the whole array.
LEMMA HeapifiedOrders ==
  ASSUME NEW n \in Nat, n <= 32767, NEW h \in Array(n), DistinctValues(h)
  PROVE  SameNodes(h, Heapified(h), n) /\ OrderedFrom(Heapified(h), n, 0)
<1> DEFINE half == Size(h) \div 2
           step(f) == [k \in 0 .. half |-> IF k = 0 THEN h ELSE Heapify(f[k - 1], half - k)]
           built == CHOOSE f : f = step(f)
           T == {g \in Array(n) : SameNodes(h, g, n)}
           g == [k \in 1 .. half |-> [x \in T |-> IF OrderedFrom(x, n, half - k + 1)
                                                  THEN Heapify(x, half - k) ELSE x]]
<1>1. Heapified(h) = built[half]
  BY DEF Heapified
<1>2. half \in Nat /\ n \in {2 * half, 2 * half + 1}
  <2>1. Size(h) = n
    BY SizeIs DEF Array
  <2>2. QED BY <2>1
<1>3. ASSUME NEW x \in T, NEW i \in 0 .. half - 1, OrderedFrom(x, n, i + 1)
      PROVE  Heapify(x, i) \in T /\ OrderedFrom(Heapify(x, i), n, i)
  <2>1. x \in Array(n) /\ DistinctValues(x) /\ Holds(x) = Holds(h)
    BY <1>3 DEF SameNodes
  <2>2. \A k \in 1 .. n - 1 : PARENT(k) \in Nat
    BY ParentIs
  <2>3. i \in i .. n /\ i \in Nat
    BY <1>2
  <2>4. i > 0 => PARENT(i) < i
    BY <2>3, ParentIs
  <2>5. HighAt(x, n, i, i)
    <3>1. ASSUME NEW k \in 1 .. n - 1, PARENT(k) >= i, PARENT(k) # i PROVE Ordered(x, k)
      BY <1>3, <2>2, <2>3, <3>1 DEF OrderedFrom
    <3>2. ~(i > 0 /\ PARENT(i) >= i)
      <4>1. i > 0 => PARENT(i) \in Nat
        BY <2>3, ParentIs
      <4>2. QED BY <2>3, <2>4, <4>1
    <3>3. QED BY <2>3, <3>1, <3>2 DEF HighAt
  <2>6. SameNodes(x, Heapify(x, i), n) /\ OrderedFrom(Heapify(x, i), n, i)
    BY <2>1, <2>3, <2>5, HeapifyOrders
  <2>7. QED BY <2>1, <2>6 DEF SameNodes
<1>4. h \in T /\ OrderedFrom(h, n, half)
  <2>1. \A k \in 1 .. n - 1 : PARENT(k) < half
    <3>1. ASSUME NEW k \in 1 .. n - 1 PROVE PARENT(k) < half
      <4>1. PARENT(k) \in Nat /\ 2 * PARENT(k) + 1 <= k
        BY ParentIs DEF LEFT, RIGHT
      <4>2. QED BY <1>2, <4>1
    <3>2. QED BY <3>1
  <2>2. \A k \in 1 .. n - 1 : PARENT(k) \in Nat
    BY ParentIs
  <2>3. OrderedFrom(h, n, half)
    <3> HIDE DEF half
    <3>1. QED BY <1>2, <2>1, <2>2 DEF OrderedFrom
  <2>4. QED BY <2>3 DEF SameNodes
<1> HIDE DEF half
<1>5. g \in [1 .. half -> [T -> T]]
  <2>1. ASSUME NEW k \in 1 .. half, NEW x \in T
        PROVE  (IF OrderedFrom(x, n, half - k + 1) THEN Heapify(x, half - k) ELSE x) \in T
    <3>1. half - k \in 0 .. half - 1
      BY <1>2
    <3> HIDE DEF T
    <3>2. QED BY <1>3, <3>1
  <2> HIDE DEF T
  <2>2. QED BY <2>1
<1>6. \A k \in 1 .. half, x \in T : OrderedFrom(x, n, half - k + 1) => g[k][x] = Heapify(x, half - k)
  <2> HIDE DEF T
  <2>1. QED OBVIOUS
<1> HIDE DEF T, g
<1>7. PICK f : IsLoop(f, half, T, h, g)
  BY <1>2, <1>4, <1>5, LoopExists
<1>8. f \in [0 .. half -> T] /\ f[0] = h /\ \A k \in 1 .. half : f[k] = g[k][f[k - 1]]
  BY <1>7 DEF IsLoop
<1> DEFINE K == {k \in 0 .. half : f[k] \in T /\ OrderedFrom(f[k], n, half - k)
                                   /\ (k > 0 => f[k] = Heapify(f[k - 1], half - k))}
<1>9. \A k \in 0 .. half : k \in K
  <2>1. 0 \in K
    BY <1>2, <1>4, <1>8
  <2>2. ASSUME NEW k \in 1 .. half, k - 1 \in K PROVE k \in K
    <3>1. half - (k - 1) = half - k + 1 /\ half - k \in 0 .. half - 1 /\ k \in 0 .. half
      BY <1>2
    <3>2. PICK x \in T : x = f[k - 1] /\ OrderedFrom(x, n, half - k + 1)
      BY <2>2, <3>1
    <3>3. f[k] = Heapify(x, half - k)
      BY <1>6, <1>8, <3>2
    <3>4. f[k] \in T /\ OrderedFrom(f[k], n, half - k)
      BY <1>3, <3>1, <3>2, <3>3
    <3>5. QED BY <3>1, <3>2, <3>3, <3>4
  <2> HIDE DEF K
  <2>3. QED BY <1>2, <2>1, <2>2, LoopTo
<1>10. built = step(built)
  <2>1. ASSUME NEW k \in 0 .. half PROVE f[k] = step(f)[k]
    <3>1. CASE k = 0
      BY <1>8, <3>1
    <3>2. CASE k # 0
      BY <1>9, <3>2
    <3>3. QED BY <3>1, <3>2
  <2>2. step(f) = [k \in 0 .. half |-> step(f)[k]]
    OBVIOUS
  <2>3. f = step(f)
    <3> HIDE DEF step
    <3>1. QED BY <1>8, <2>1, <2>2
  <2> HIDE DEF step
  <2>4. QED BY <2>3
<1> HIDE DEF built
<1>11. built[0] = h /\ \A k \in 1 .. half : built[k] = Heapify(built[k - 1], half - k)
  BY <1>2, <1>10
<1> DEFINE E == {k \in 0 .. half : built[k] = f[k]}
<1>12. half \in E
  <2>1. 0 \in E
    BY <1>2, <1>8, <1>11
  <2>2. ASSUME NEW k \in 1 .. half, k - 1 \in E PROVE k \in E
    <3>1. k \in 0 .. half /\ k > 0
      BY <1>2
    <3>2. f[k] = Heapify(f[k - 1], half - k)
      BY <1>9, <3>1
    <3>3. QED BY <1>11, <2>2, <3>1, <3>2
  <2>3. half \in 0 .. half
    BY <1>2
  <2> HIDE DEF E
  <2>4. QED BY <1>2, <2>1, <2>2, <2>3, LoopTo
<1>13. f[half] \in T /\ OrderedFrom(f[half], n, 0) /\ built[half] = f[half]
  BY <1>2, <1>9, <1>12
<1>14. QED BY <1>1, <1>13 DEF T

-----------------------------------------------------------------------------
(* What the heap holds                                                     *)

\* The root has the least priority of all.
LEMMA RootLeast ==
  ASSUME NEW n \in Nat, NEW h \in Array(n), OrderedFrom(h, n, 0), NEW k \in 0 .. n - 1
  PROVE  h[0].priority <= h[k].priority
<1>1. \A j \in 0 .. n - 1 : h[j].priority \in Nat
  BY ArrayIs
<1> DEFINE F == {j \in 0 .. n - 1 : ~ (h[0].priority <= h[j].priority)}
<1>2. SUFFICES ASSUME F # {} PROVE FALSE
  OBVIOUS
<1>3. PICK m \in F : \A j \in F : m <= j
  <2>1. F \in SUBSET Nat
    OBVIOUS
  <2> HIDE DEF F
  <2>2. QED BY <1>2, <2>1, NatMin
<1>4. m \in 1 .. n - 1 /\ 0 \in 0 .. n - 1
  BY <1>1, <1>3
<1>5. PARENT(m) \in 0 .. m - 1 /\ PARENT(m) \in 0 .. n - 1
  BY <1>4, ParentIs
<1>6. PARENT(m) \notin F
  <2> HIDE DEF F
  <2>1. QED BY <1>3, <1>4, <1>5
<1>7. h[0].priority <= h[PARENT(m)].priority
  BY <1>5, <1>6
<1>8. h[PARENT(m)].priority <= h[m].priority
  BY <1>4, <1>5 DEF OrderedFrom, Ordered
<1>9. h[0].priority <= h[m].priority
  BY <1>1, <1>4, <1>5, <1>7, <1>8
<1>10. QED BY <1>3, <1>9

ValuesOf(h) == {h[i].value : i \in DOMAIN h}
PriOf(h) == [v \in ValuesOf(h) |-> h[CHOOSE i \in DOMAIN h : h[i].value = v].priority]

\* Each value has the priority of the node that holds it.
LEMMA PriIs ==
  ASSUME NEW n \in Nat, NEW h \in Array(n), DistinctValues(h)
  PROVE  /\ PriOf(h) \in [ValuesOf(h) -> Priorities]
         /\ ValuesOf(h) \in SUBSET Items
         /\ \A i \in 0 .. n - 1 : h[i].value \in ValuesOf(h) /\ PriOf(h)[h[i].value] = h[i].priority
         /\ \A v \in ValuesOf(h) : \E i \in 0 .. n - 1 : v = h[i].value
<1>1. DOMAIN h = 0 .. n - 1 /\ \A i \in 0 .. n - 1 : h[i] \in Nodes
  BY ArrayIs
<1>2. \A x \in Nodes : x.value \in Items /\ x.priority \in Priorities
  BY DEF Nodes
<1>3. \A i \in 0 .. n - 1 : h[i].value \in ValuesOf(h)
  BY <1>1 DEF ValuesOf
<1>4. \A v \in ValuesOf(h) : \E i \in 0 .. n - 1 : v = h[i].value
  BY <1>1 DEF ValuesOf
<1>5. ASSUME NEW v \in ValuesOf(h), NEW i \in 0 .. n - 1, v = h[i].value
      PROVE  PriOf(h)[v] = h[i].priority
  <2>1. PICK c : c = CHOOSE j \in DOMAIN h : h[j].value = v
    OBVIOUS
  <2>2. c \in DOMAIN h /\ h[c].value = v
    BY <1>1, <1>5, <2>1
  <2>3. c = i
    BY <1>1, <1>5, <2>2 DEF DistinctValues
  <2>4. PriOf(h)[v] = h[c].priority
    BY <2>1 DEF PriOf
  <2>5. QED BY <2>3, <2>4
<1>6. \A v \in ValuesOf(h) : PriOf(h)[v] \in Priorities
  BY <1>1, <1>2, <1>4, <1>5
<1>7. PriOf(h) \in [ValuesOf(h) -> Priorities]
  <2>1. PriOf(h) = [v \in ValuesOf(h) |-> PriOf(h)[v]]
    BY DEF PriOf
  <2>2. QED BY <1>6, <2>1
<1>8. QED BY <1>1, <1>2, <1>3, <1>4, <1>5, <1>7

\* A function on the values that agrees with every node is the priorities.
LEMMA PriFrom ==
  ASSUME NEW n \in Nat, NEW h \in Array(n), DistinctValues(h), NEW S, NEW f,
         f = [v \in S |-> f[v]],
         \A i \in 0 .. n - 1 : h[i].value \in S /\ f[h[i].value] = h[i].priority,
         \A v \in S : \E i \in 0 .. n - 1 : v = h[i].value
  PROVE  PriOf(h) = f
<1>1. ValuesOf(h) = S
  <2>1. DOMAIN h = 0 .. n - 1
    BY ArrayIs
  <2>2. ASSUME NEW v \in ValuesOf(h) PROVE v \in S
    BY <2>1 DEF ValuesOf
  <2>3. ASSUME NEW v \in S PROVE v \in ValuesOf(h)
    BY <2>1 DEF ValuesOf
  <2>4. QED BY <2>2, <2>3
<1>2. \A v \in S : PriOf(h)[v] = f[v]
  BY PriIs
<1>3. PriOf(h) = [v \in S |-> PriOf(h)[v]]
  BY <1>1, PriIs
<1>4. QED BY <1>2, <1>3

\* The order of the nodes in the array does not matter.
LEMMA PriSame ==
  ASSUME NEW n \in Nat, NEW h \in Array(n), NEW g, DistinctValues(h), SameNodes(h, g, n)
  PROVE  PriOf(g) = PriOf(h)
<1>1. g \in Array(n) /\ DistinctValues(g) /\ Holds(g) = Holds(h)
  BY DEF SameNodes
<1>2. DOMAIN g = 0 .. n - 1 /\ DOMAIN h = 0 .. n - 1
  BY <1>1, ArrayIs
<1>3. \A i \in 0 .. n - 1 : \E j \in 0 .. n - 1 : g[i] = h[j]
  BY <1>1, <1>2 DEF Holds
<1>4. \A i \in 0 .. n - 1 : \E j \in 0 .. n - 1 : h[i] = g[j]
  BY <1>1, <1>2 DEF Holds
<1>5. PriOf(h) = [v \in ValuesOf(h) |-> PriOf(h)[v]]
  BY PriIs
<1>6. \A i \in 0 .. n - 1 : g[i].value \in ValuesOf(h) /\ PriOf(h)[g[i].value] = g[i].priority
  BY <1>3, PriIs
<1>7. \A v \in ValuesOf(h) : \E i \in 0 .. n - 1 : v = g[i].value
  BY <1>4, PriIs
<1>8. QED BY <1>1, <1>5, <1>6, <1>7, PriFrom

\* As many values as nodes
LEMMA ValuesCount ==
  ASSUME NEW n \in Nat, NEW h \in Array(n), DistinctValues(h)
  PROVE  Cardinality(ValuesOf(h)) = n
<1> DEFINE f == [i \in 0 .. n - 1 |-> h[i].value]
<1>1. DOMAIN h = 0 .. n - 1
  BY ArrayIs
<1>2. \A i \in 0 .. n - 1 : f[i] = h[i].value
  OBVIOUS
<1>3. f \in [0 .. n - 1 -> ValuesOf(h)]
  BY PriIs
<1> HIDE DEF f
<1>4. f \in Surjection(0 .. n - 1, ValuesOf(h))
  <2>1. \A v \in ValuesOf(h) : \E i \in 0 .. n - 1 : f[i] = v
    BY <1>2, PriIs
  <2>2. QED BY <1>3, <2>1 DEF Surjection
<1>5. f \in Injection(0 .. n - 1, ValuesOf(h))
  <2>1. \A i, j \in 0 .. n - 1 : f[i] = f[j] => i = j
    BY <1>1, <1>2 DEF DistinctValues
  <2>2. QED BY <1>3, <2>1 DEF Injection, IsInjective
<1>6. IsFiniteSet(0 .. n - 1) /\ Cardinality(0 .. n - 1) = n
  <2>1. Cardinality(0 .. n - 1) = n
    BY SizeIs DEF Size, Array
  <2>2. QED BY <2>1, FS_Interval
<1>7. Cardinality(ValuesOf(h)) = Cardinality(0 .. n - 1)
  BY <1>4, <1>5, <1>6, FS_Surjection
<1>8. QED BY <1>6, <1>7

-----------------------------------------------------------------------------
(* The operations                                                          *)

HeapOf(h, n) == n \in 0 .. MAX_PQ_ELEMENTS /\ h \in Array(n) /\ DistinctValues(h) /\ OrderedFrom(h, n, 0)
HeapInv == \E n \in Nat : HeapOf(heap, n)

LEMMA Capacity ==
  ASSUME NEW n \in 0 .. MAX_PQ_ELEMENTS
  PROVE  n \in Nat /\ n <= 32767 /\ MAX_PQ_ELEMENTS \in Nat
<1>1. MAX_PQ_ELEMENTS \in Nat /\ MAX_PQ_ELEMENTS <= 32767
  BY HeapAssumption
<1>2. QED BY <1>1

LEMMA PriSees == Pri = PriOf(heap) /\ Present = ValuesOf(heap)
BY DEF Pri, Present, PriOf, ValuesOf

\* What MinQueue takes from the standard modules
LEMMA Standard ==
  ASSUME NEW S
  PROVE  Q!Cardinality(S) = Cardinality(S) /\ \A f : Q!Restrict(f, S) = Restrict(f, S)
BY DEF Cardinality, Q!Cardinality, Restrict, Q!Restrict

LEMMA HeapInvInit == HeapInit => HeapInv /\ Q!QInit
<1> SUFFICES ASSUME HeapInit PROVE HeapInv /\ Q!QInit
  OBVIOUS
<1>1. PICK h \in Arrays : DistinctValues(h) /\ heap = Heapified(h)
  BY DEF HeapInit
<1>2. PICK n \in 0 .. MAX_PQ_ELEMENTS : h \in Array(n)
  BY <1>1 DEF Arrays, Array, Nodes
<1>3. n \in Nat /\ n <= 32767
  BY Capacity
<1>4. SameNodes(h, heap, n) /\ OrderedFrom(heap, n, 0)
  BY <1>1, <1>2, <1>3, HeapifiedOrders
<1>5. HeapOf(heap, n)
  BY <1>4 DEF HeapOf, SameNodes
<1>6. PriOf(heap) \in [ValuesOf(heap) -> Priorities] /\ ValuesOf(heap) \in SUBSET Items
  BY <1>3, <1>5, PriIs DEF HeapOf
<1>7. Cardinality(ValuesOf(heap)) <= MAX_PQ_ELEMENTS
  BY <1>3, <1>5, ValuesCount, Capacity DEF HeapOf
<1>8. Q!QInit
  <2>1. ValuesOf(heap) \in SUBSET Items /\ Cardinality(ValuesOf(heap)) <= MAX_PQ_ELEMENTS
        /\ Pri \in [ValuesOf(heap) -> Priorities]
    BY <1>6, <1>7, PriSees
  <2>2. popped = None
    BY DEF HeapInit
  <2>3. QED BY <2>1, <2>2, Standard, Zenon DEF Q!QInit
<1>9. QED BY <1>3, <1>5, <1>8 DEF HeapInv

LEMMA AddStep ==
  ASSUME NEW n, HeapOf(heap, n), NEW v \in Items, NEW p \in Priorities, Add(v, p)
  PROVE  HeapInv' /\ Q!QAdd(v, p)
<1>1. n \in Nat /\ n <= 32767 /\ MAX_PQ_ELEMENTS \in Nat /\ n <= MAX_PQ_ELEMENTS
      /\ heap \in Array(n) /\ DistinctValues(heap) /\ OrderedFrom(heap, n, 0)
  BY Capacity DEF HeapOf
<1>2. Size(heap) = n /\ DOMAIN heap = 0 .. n - 1
  <2>1. n \in Nat /\ heap \in [0 .. n - 1 -> Nodes]
    BY <1>1 DEF Array
  <2>2. QED BY <2>1, SizeIs
<1>3. v \notin ValuesOf(heap) /\ popped' = popped
  BY PriSees DEF Add
<1>4. PriOf(heap) \in [ValuesOf(heap) -> Priorities] /\ Cardinality(ValuesOf(heap)) = n
  BY <1>1, PriIs, ValuesCount
<1>5. DOMAIN Pri = ValuesOf(heap) /\ Pri = PriOf(heap) /\ Pri' = PriOf(heap')
  BY <1>4, PriSees DEF Pri, Present, PriOf, ValuesOf
<1>6. CASE n < MAX_PQ_ELEMENTS
  <2> DEFINE h == [i \in 0 .. n |-> IF i = n THEN HeapNode(v, p) ELSE heap[i]]
             m == n + 1
  <2>1. heap' = BubbleUp(h, n)
    BY <1>2, <1>6 DEF Add
  <2>2. m \in Nat /\ m <= 32768 /\ m - 1 = n /\ m \in 0 .. MAX_PQ_ELEMENTS
    BY <1>1, <1>6
  <2>3. HeapNode(v, p) \in Nodes /\ HeapNode(v, p).value = v /\ HeapNode(v, p).priority = p
    BY DEF HeapNode, Nodes
  <2>4. \A i \in 0 .. n - 1 : heap[i] \in Nodes /\ heap[i].value \in ValuesOf(heap)
    BY <1>1, ArrayIs, PriIs
  <2>5. /\ DOMAIN h = 0 .. n /\ h[n] = HeapNode(v, p)
        /\ \A i \in 0 .. n - 1 : h[i] = heap[i]
        /\ \A i \in 0 .. n : i = n \/ i \in 0 .. n - 1
    BY <1>1
  <2>6. h \in [0 .. n -> Nodes]
    BY <1>1, <2>3, <2>4
  <2> HIDE DEF h
  <2>7. h \in Array(m) /\ DistinctValues(h)
    <3>1. ASSUME NEW i \in 0 .. n, NEW j \in 0 .. n, h[i].value = h[j].value PROVE i = j
      <4>1. CASE i = n /\ j = n
        BY <4>1
      <4>2. CASE i \in 0 .. n - 1 /\ j \in 0 .. n - 1
        BY <1>1, <1>2, <2>5, <3>1, <4>2 DEF DistinctValues
      <4>3. CASE i = n /\ j \in 0 .. n - 1
        BY <1>3, <2>3, <2>4, <2>5, <3>1, <4>3
      <4>4. CASE j = n /\ i \in 0 .. n - 1
        BY <1>3, <2>3, <2>4, <2>5, <3>1, <4>4
      <4>5. QED BY <2>5, <4>1, <4>2, <4>3, <4>4
    <3>2. DistinctValues(h)
      BY <2>5, <3>1 DEF DistinctValues
    <3>3. QED BY <2>2, <2>6, <3>2 DEF Array
  <2>8. LowAt(h, m, n)
    <3>1. \A k \in 1 .. n : PARENT(k) \in 0 .. n - 1
      BY <1>1, ParentIs
    <3>2. ASSUME NEW k \in 1 .. n, k # n PROVE Ordered(h, k)
      <4>1. k \in 1 .. n - 1 /\ PARENT(k) \in 0 .. n - 1
        BY <1>1, <3>1, <3>2
      <4>2. Ordered(heap, k)
        BY <1>1, <4>1 DEF OrderedFrom
      <4>3. QED BY <2>5, <4>1, <4>2 DEF Ordered
    <3>3. \A k \in 1 .. n : PARENT(k) # n
      BY <1>1, <3>1
    <3>4. n \in 0 .. m - 1
      BY <1>1, <2>2
    <3>5. QED BY <2>2, <3>2, <3>3, <3>4 DEF LowAt
  <2>9. SameNodes(h, heap', m) /\ OrderedFrom(heap', m, 0)
    <3>1. n \in 0 .. m - 1
      BY <1>1, <2>2
    <3> HIDE DEF m
    <3>2. QED BY <2>1, <2>2, <2>7, <2>8, <3>1, BubbleUpOrders
  <2> DEFINE f == [w \in ValuesOf(heap) \cup {v} |-> IF w = v THEN p ELSE PriOf(heap)[w]]
  <2>10. /\ f = [w \in ValuesOf(heap) \cup {v} |-> f[w]]
         /\ f[v] = p /\ \A w \in ValuesOf(heap) : w # v => f[w] = PriOf(heap)[w]
    OBVIOUS
  <2>11. f = [w \in DOMAIN Pri \cup {v} |-> IF w = v THEN p ELSE Pri[w]]
    BY <1>5
  <2> HIDE DEF f
  <2>12. PriOf(h) = f
    <3>1. ASSUME NEW i \in 0 .. n PROVE h[i].value \in ValuesOf(heap) \cup {v} /\ f[h[i].value] = h[i].priority
      <4>1. CASE i = n
        BY <2>3, <2>5, <2>10, <4>1
      <4>2. CASE i \in 0 .. n - 1
        <5>1. heap[i].value \in ValuesOf(heap) /\ PriOf(heap)[heap[i].value] = heap[i].priority
          BY <1>1, <4>2, PriIs
        <5>2. heap[i].value # v
          BY <1>3, <5>1
        <5>3. QED BY <2>5, <2>10, <4>2, <5>1, <5>2
      <4>3. QED BY <2>5, <4>1, <4>2
    <3>2. ASSUME NEW w \in ValuesOf(heap) \cup {v} PROVE \E i \in 0 .. n : w = h[i].value
      <4>1. CASE w = v
        <5>1. n \in 0 .. n
          BY <1>1
        <5>2. QED BY <2>3, <2>5, <4>1, <5>1
      <4>2. CASE w \in ValuesOf(heap)
        <5>1. PICK i \in 0 .. n - 1 : w = heap[i].value
          BY <1>1, <4>2, PriIs
        <5>2. i \in 0 .. n /\ h[i] = heap[i]
          BY <1>1, <2>5
        <5>3. QED BY <5>1, <5>2
      <4>3. QED BY <4>1, <4>2
    <3> DEFINE S == ValuesOf(heap) \cup {v}
    <3>3. /\ f = [w \in S |-> f[w]]
          /\ \A i \in 0 .. m - 1 : h[i].value \in S /\ f[h[i].value] = h[i].priority
          /\ \A w \in S : \E i \in 0 .. m - 1 : w = h[i].value
      <4>1. 0 .. m - 1 = 0 .. n
        BY <1>1
      <4>2. f = [w \in S |-> f[w]]
        BY <2>10
      <4> HIDE DEF m
      <4>3. \A i \in 0 .. m - 1 : h[i].value \in S /\ f[h[i].value] = h[i].priority
        BY <3>1, <4>1
      <4>4. \A w \in S : \E i \in 0 .. m - 1 : w = h[i].value
        <5>1. ASSUME NEW w \in S PROVE \E i \in 0 .. n : w = h[i].value
          BY <3>2
        <5>2. QED BY <4>1, <5>1
      <4>5. QED BY <4>2, <4>3, <4>4
    <3> HIDE DEF m, S
    <3>4. QED BY <2>2, <2>7, <3>3, PriFrom
  <2>13. PriOf(heap') = f
    <3> HIDE DEF m
    <3>1. QED BY <2>2, <2>7, <2>9, <2>12, PriSame
  <2>14. Q!QAdd(v, p)
    <3>1. v \notin DOMAIN Pri /\ popped' = popped
      BY <1>3, <1>5
    <3>2. Cardinality(DOMAIN Pri) < MAX_PQ_ELEMENTS
      BY <1>4, <1>5, <1>6
    <3>3. Pri' = [w \in DOMAIN Pri \cup {v} |-> IF w = v THEN p ELSE Pri[w]]
      BY <1>5, <2>13, <2>11
    <3>4. QED BY <3>1, <3>2, <3>3, Standard, Zenon DEF Q!QAdd
  <2>15. HeapOf(heap, m)'
    BY <2>2, <2>9 DEF HeapOf, SameNodes
  <2>16. QED BY <2>2, <2>14, <2>15 DEF HeapInv
<1>7. CASE ~ (n < MAX_PQ_ELEMENTS)
  <2>1. heap' = heap
    BY <1>2, <1>7 DEF Add
  <2>2. HeapOf(heap, n)'
    BY <2>1
  <2>3. Pri' = Pri
    BY <1>5, <2>1
  <2>4. Q!QAdd(v, p)
    <3>1. v \notin DOMAIN Pri /\ popped' = popped
      BY <1>3, <1>5
    <3>2. ~ (Cardinality(DOMAIN Pri) < MAX_PQ_ELEMENTS)
      BY <1>4, <1>5, <1>7
    <3>3. QED BY <2>3, <3>1, <3>2, Standard, Zenon DEF Q!QAdd
  <2>5. QED BY <1>1, <2>2, <2>4 DEF HeapInv
<1>8. QED BY <1>6, <1>7

LEMMA PopStep ==
  ASSUME NEW n, HeapOf(heap, n), PopMin
  PROVE  HeapInv' /\ Q!QPop
<1>1. n \in Nat /\ n <= 32767 /\ n \in 0 .. MAX_PQ_ELEMENTS
      /\ heap \in Array(n) /\ DistinctValues(heap) /\ OrderedFrom(heap, n, 0)
  BY Capacity DEF HeapOf
<1>2. Size(heap) = n /\ DOMAIN heap = 0 .. n - 1
  <2>1. n \in Nat /\ heap \in [0 .. n - 1 -> Nodes]
    BY <1>1 DEF Array
  <2>2. QED BY <2>1, SizeIs
<1>3. PriOf(heap) \in [ValuesOf(heap) -> Priorities]
  BY <1>1, PriIs
<1>4. DOMAIN Pri = ValuesOf(heap) /\ Pri = PriOf(heap) /\ Pri' = PriOf(heap')
  BY <1>3, PriSees DEF Pri, Present, PriOf, ValuesOf
<1>5. CASE n = 0
  <2>1. heap' = heap /\ popped' = None
    BY <1>2, <1>5 DEF PopMin
  <2>2. HeapOf(heap, n)'
    BY <2>1
  <2>3. DOMAIN Pri = {} /\ Pri' = Pri
    BY <1>2, <1>4, <1>5, <2>1 DEF ValuesOf
  <2>4. Q!QPop
    BY <2>1, <2>3, Zenon DEF Q!QPop
  <2>5. QED BY <1>1, <2>2, <2>4 DEF HeapInv
<1>6. CASE n # 0
  <2> DEFINE m == n - 1
             h == [i \in 0 .. m - 1 |-> IF i = 0 THEN heap[m] ELSE heap[i]]
             v == heap[0].value
  <2>1. heap' = Heapify(h, 0) /\ popped' = v
    BY <1>2, <1>6 DEF PopMin
  <2>2. m \in Nat /\ m <= 32767 /\ m \in 0 .. MAX_PQ_ELEMENTS /\ n = m + 1
    BY <1>1, <1>6, Capacity
  <2> HIDE DEF m
  <2>3. m \in 0 .. n - 1 /\ 0 \in 0 .. n - 1 /\ \A i \in 0 .. m - 1 : i \in 0 .. n - 1 /\ i # m
    BY <2>2
  <2>4. /\ DOMAIN h = 0 .. m - 1
        /\ \A i \in 0 .. m - 1 : h[i] = IF i = 0 THEN heap[m] ELSE heap[i]
    OBVIOUS
  <2>5. h \in Array(m)
    <3>1. \A i \in 0 .. n - 1 : heap[i] \in Nodes
      BY <1>1, ArrayIs
    <3>2. \A i \in 0 .. m - 1 : (IF i = 0 THEN heap[m] ELSE heap[i]) \in Nodes
      BY <2>3, <3>1
    <3>3. QED BY <3>2 DEF Array
  <2> HIDE DEF h
  <2>6. DistinctValues(h)
    <3>1. ASSUME NEW i \in 0 .. m - 1, NEW j \in 0 .. m - 1, h[i].value = h[j].value PROVE i = j
      BY <1>1, <1>2, <2>3, <2>4, <3>1 DEF DistinctValues
    <3>2. QED BY <2>4, <3>1 DEF DistinctValues
  <2>7. HighAt(h, m, 0, 0)
    <3>1. ASSUME NEW k \in 1 .. m - 1, PARENT(k) # 0 PROVE Ordered(h, k)
      <4>1. PARENT(k) \in 0 .. m - 1 /\ k \in 0 .. m - 1 /\ k \in 1 .. n - 1 /\ PARENT(k) \in Nat
        BY <2>2, ParentIs
      <4>2. Ordered(heap, k)
        BY <1>1, <4>1 DEF OrderedFrom
      <4>3. QED BY <2>4, <3>1, <4>1, <4>2 DEF Ordered
    <3>2. 0 \in 0 .. m
      BY <2>2
    <3>3. QED BY <3>1, <3>2 DEF HighAt
  <2>8. SameNodes(h, heap', m) /\ OrderedFrom(heap', m, 0)
    BY <2>1, <2>2, <2>5, <2>6, <2>7, HeapifyOrders
  <2>9. HeapOf(heap, m)'
    BY <2>2, <2>8 DEF HeapOf, SameNodes
  <2>10. /\ \A i \in 0 .. n - 1 : heap[i].value \in ValuesOf(heap) /\ PriOf(heap)[heap[i].value] = heap[i].priority
         /\ \A w \in ValuesOf(heap) : \E i \in 0 .. n - 1 : w = heap[i].value
    BY <1>1, PriIs
  <2>11. \A i \in 0 .. n - 1 : heap[i].value = v <=> i = 0
    BY <1>1, <1>2, <2>3 DEF DistinctValues
  <2>12. v \in ValuesOf(heap) /\ PriOf(heap)[v] = heap[0].priority
    BY <2>3, <2>10
  <2> HIDE DEF v
  <2>13. \A w \in ValuesOf(heap) : PriOf(heap)[v] <= PriOf(heap)[w]
    BY <1>1, <2>10, <2>12, RootLeast
  <2> DEFINE S == ValuesOf(heap) \ {v}
             f == Restrict(PriOf(heap), S)
  <2>14. f = [w \in S |-> f[w]] /\ \A w \in S : f[w] = PriOf(heap)[w]
    BY DEF Restrict
  <2> HIDE DEF f
  <2>15. ASSUME NEW i \in 0 .. m - 1 PROVE h[i].value \in S /\ f[h[i].value] = h[i].priority
    <3>1. PICK j \in 0 .. n - 1 : j # 0 /\ h[i] = heap[j]
      BY <2>2, <2>3, <2>4
    <3>2. heap[j].value \in S
      BY <2>10, <2>11, <3>1
    <3>3. QED BY <2>10, <2>14, <3>1, <3>2
  <2>16. ASSUME NEW w \in S PROVE \E i \in 0 .. m - 1 : w = h[i].value
    <3>1. PICK j \in 0 .. n - 1 : w = heap[j].value /\ j # 0
      BY <2>10, <2>11
    <3>2. CASE j = m
      <4>1. 0 \in 0 .. m - 1 /\ h[0] = heap[j]
        BY <2>2, <2>4, <3>1, <3>2
      <4>2. QED BY <3>1, <4>1
    <3>3. CASE j # m
      <4>1. j \in 0 .. m - 1
        BY <2>2, <3>3
      <4>2. h[j] = heap[j]
        BY <2>4, <3>1, <4>1
      <4>3. QED BY <3>1, <4>1, <4>2
    <3>4. QED BY <3>2, <3>3
  <2> HIDE DEF S
  <2>17. PriOf(h) = f
    BY <2>2, <2>5, <2>6, <2>14, <2>15, <2>16, PriFrom
  <2>18. PriOf(heap') = f
    BY <2>2, <2>5, <2>6, <2>8, <2>17, PriSame
  <2>19. Q!QPop
    <3>1. Pri' = Restrict(Pri, DOMAIN Pri \ {v})
      BY <1>4, <2>18 DEF f, S
    <3>2. v \in DOMAIN Pri /\ \A w \in DOMAIN Pri : Pri[v] <= Pri[w]
      BY <1>4, <2>12, <2>13
    <3>3. DOMAIN Pri # {}
      BY <3>2
    <3>4. QED BY <2>1, <3>1, <3>2, <3>3, Standard, Zenon DEF Q!QPop
  <2>20. QED BY <2>2, <2>9, <2>19 DEF HeapInv
<1>7. QED BY <1>5, <1>6

LEMMA DecreaseStep ==
  ASSUME NEW n, HeapOf(heap, n), NEW v \in Items, NEW p \in Priorities, Decrease(v, p)
  PROVE  HeapInv' /\ Q!QDecrease(v, p)
<1>1. n \in Nat /\ n <= 32767 /\ n \in 0 .. MAX_PQ_ELEMENTS
      /\ heap \in Array(n) /\ DistinctValues(heap) /\ OrderedFrom(heap, n, 0)
  BY Capacity DEF HeapOf
<1>2. DOMAIN heap = 0 .. n - 1 /\ \A i \in 0 .. n - 1 : heap[i] \in Nodes /\ heap[i].priority \in Nat
  BY <1>1, ArrayIs
<1>3. PriOf(heap) \in [ValuesOf(heap) -> Priorities]
  BY <1>1, PriIs
<1>4. DOMAIN Pri = ValuesOf(heap) /\ Present = ValuesOf(heap) /\ Pri = PriOf(heap) /\ Pri' = PriOf(heap')
  BY <1>3, PriSees DEF Pri, Present, PriOf, ValuesOf
<1>5. popped' = popped
  BY DEF Decrease
<1>6. CASE v \notin ValuesOf(heap)
  <2>1. heap' = heap
    BY <1>4, <1>6 DEF Decrease
  <2>2. HeapOf(heap, n)'
    BY <2>1
  <2>3. v \notin DOMAIN Pri /\ Pri' = Pri
    BY <1>4, <1>6, <2>1
  <2>4. Q!QDecrease(v, p)
    BY <1>5, <2>3, Zenon DEF Q!QDecrease
  <2>5. QED BY <1>1, <2>2, <2>4 DEF HeapInv
<1>7. CASE v \in ValuesOf(heap)
  <2>1. PICK i : i = CHOOSE j \in DOMAIN heap : heap[j].value = v
    OBVIOUS
  <2>2. i \in 0 .. n - 1 /\ heap[i].value = v
    BY <1>2, <1>7, <2>1 DEF ValuesOf
  <2> DEFINE h == [heap EXCEPT ![i].priority = p]
  <2>3. heap' = BubbleUp(h, i)
    BY <1>4, <1>7, <2>1 DEF Decrease
  <2>4. p <= heap[i].priority
    BY <1>2, <2>2 DEF Decrease
  <2>5. /\ DOMAIN h = 0 .. n - 1
        /\ \A j \in 0 .. n - 1 : j # i => h[j] = heap[j]
        /\ h[i] = [heap[i] EXCEPT !.priority = p]
    BY <1>2, <2>2
  <2>6. h[i] \in Nodes /\ h[i].value = v /\ h[i].priority = p
    <3>1. ASSUME NEW x \in Nodes
          PROVE  LET y == [x EXCEPT !.priority = p] IN y \in Nodes /\ y.value = x.value /\ y.priority = p
      BY DEF Nodes
    <3>2. PICK x \in Nodes : x = heap[i]
      BY <1>2, <2>2
    <3> HIDE DEF h
    <3>3. QED BY <2>2, <2>5, <3>1, <3>2
  <2>7. h \in Array(n)
    <3>1. \A j \in 0 .. n - 1 : h[j] \in Nodes
      <4> HIDE DEF h
      <4>1. QED BY <1>2, <2>5, <2>6
    <3>2. h = [j \in 0 .. n - 1 |-> h[j]]
      BY <1>2
    <3> HIDE DEF h
    <3>3. QED BY <3>1, <3>2 DEF Array
  <2> HIDE DEF h
  <2>8. \A j \in 0 .. n - 1 : h[j].value = heap[j].value
    BY <2>2, <2>5, <2>6
  <2>9. DistinctValues(h)
    BY <1>1, <1>2, <2>5, <2>8 DEF DistinctValues
  <2>10. LowAt(h, n, i)
    <3>1. ASSUME NEW k \in 1 .. n - 1
          PROVE  PARENT(k) \in 0 .. k - 1 /\ PARENT(k) \in 0 .. n - 1 /\ k \in 0 .. n - 1
      <4>1. k \in Int /\ k >= 1 /\ k <= n - 1
        BY <1>1
      <4>2. PARENT(k) \in 0 .. k - 1
        BY <4>1, ParentIs
      <4>3. QED BY <1>1, <4>1, <4>2
    <3>2. \A k \in 1 .. n - 1 : heap[PARENT(k)].priority <= heap[k].priority
      BY <1>1, <3>1 DEF OrderedFrom, Ordered
    <3>3. p \in Nat
      BY PrioritiesAre
    <3>4. ASSUME NEW k \in 1 .. n - 1, k # i PROVE h[PARENT(k)].priority <= h[k].priority
      <4>1. h[k] = heap[k]
        BY <2>5, <3>1, <3>4
      <4>2. CASE PARENT(k) = i
        <5>1. heap[i].priority <= heap[k].priority
          BY <3>2, <4>2
        <5>2. p <= heap[k].priority
          BY <1>2, <2>2, <2>4, <3>1, <3>3, <5>1
        <5>3. QED BY <2>6, <4>1, <4>2, <5>2
      <4>3. CASE PARENT(k) # i
        BY <2>5, <3>1, <3>2, <4>1, <4>3
      <4>4. QED BY <4>2, <4>3
    <3>5. ASSUME i > 0, NEW k \in 1 .. n - 1, PARENT(k) = i PROVE h[PARENT(i)].priority <= h[k].priority
      <4>1. i \in 1 .. n - 1 /\ PARENT(i) \in 0 .. n - 1 /\ PARENT(i) # i /\ k # i
        BY <2>2, <3>1, <3>5
      <4>2. h[PARENT(i)] = heap[PARENT(i)] /\ h[k] = heap[k]
        BY <2>5, <3>1, <4>1
      <4>3. heap[PARENT(i)].priority <= heap[i].priority /\ heap[i].priority <= heap[k].priority
        BY <3>2, <3>5, <4>1
      <4>4. QED BY <1>2, <2>2, <3>1, <4>1, <4>2, <4>3
    <3>6. QED BY <2>2, <3>4, <3>5 DEF LowAt, Ordered
  <2>11. SameNodes(h, heap', n) /\ OrderedFrom(heap', n, 0)
    BY <1>1, <2>2, <2>3, <2>7, <2>9, <2>10, BubbleUpOrders
  <2>12. HeapOf(heap, n)'
    BY <1>1, <2>11 DEF HeapOf, SameNodes
  <2>13. /\ \A j \in 0 .. n - 1 : heap[j].value \in ValuesOf(heap) /\ PriOf(heap)[heap[j].value] = heap[j].priority
         /\ \A w \in ValuesOf(heap) : \E j \in 0 .. n - 1 : w = heap[j].value
    BY <1>1, PriIs
  <2> DEFINE f == [PriOf(heap) EXCEPT ![v] = p]
  <2>14. /\ f = [w \in ValuesOf(heap) |-> f[w]]
         /\ f[v] = p /\ \A w \in ValuesOf(heap) : w # v => f[w] = PriOf(heap)[w]
    BY <1>3, <1>7
  <2>15. Pri \in [ValuesOf(heap) -> Priorities] /\ f = [Pri EXCEPT ![v] = p]
    BY <1>3, <1>4
  <2> HIDE DEF f
  <2>16. ASSUME NEW j \in 0 .. n - 1 PROVE h[j].value \in ValuesOf(heap) /\ f[h[j].value] = h[j].priority
    <3>1. CASE j = i
      BY <1>7, <2>6, <2>14, <3>1
    <3>2. CASE j # i
      <4>1. heap[j].value # v
        BY <1>1, <1>2, <2>2, <3>2 DEF DistinctValues
      <4>2. QED BY <2>5, <2>13, <2>14, <3>2, <4>1
    <3>3. QED BY <3>1, <3>2
  <2>17. \A w \in ValuesOf(heap) : \E j \in 0 .. n - 1 : w = h[j].value
    BY <2>8, <2>13
  <2>18. PriOf(h) = f
    <3>1. PICK S : S = ValuesOf(heap)
      OBVIOUS
    <3>2. /\ f = [w \in S |-> f[w]]
          /\ \A j \in 0 .. n - 1 : h[j].value \in S /\ f[h[j].value] = h[j].priority
          /\ \A w \in S : \E j \in 0 .. n - 1 : w = h[j].value
      BY <2>14, <2>16, <2>17, <3>1
    <3>3. QED BY <1>1, <2>7, <2>9, <3>2, PriFrom
  <2>19. PriOf(heap') = f
    BY <1>1, <2>7, <2>9, <2>11, <2>18, PriSame
  <2>20. Q!QDecrease(v, p)
    <3>1. v \in DOMAIN Pri /\ Pri' = [Pri EXCEPT ![v] = p]
      BY <1>4, <1>7, <2>15, <2>19
    <3>2. QED BY <1>5, <3>1, Zenon DEF Q!QDecrease
  <2>21. QED BY <1>1, <2>12, <2>20 DEF HeapInv
<1>8. QED BY <1>6, <1>7

LEMMA HeapStep ==
  ASSUME HeapInv, HeapNext
  PROVE  HeapInv' /\ Q!QNext
<1>1. PICK n \in Nat : HeapOf(heap, n)
  BY DEF HeapInv
<1>2. ASSUME NEW v \in Items, NEW p \in Priorities, Add(v, p) PROVE HeapInv' /\ Q!QNext
  BY <1>1, <1>2, AddStep DEF Q!QNext
<1>3. ASSUME NEW v \in Items, NEW p \in Priorities, Decrease(v, p) PROVE HeapInv' /\ Q!QNext
  BY <1>1, <1>3, DecreaseStep DEF Q!QNext
<1>4. CASE PopMin
  BY <1>1, <1>4, PopStep DEF Q!QNext
<1>5. QED BY <1>2, <1>3, <1>4 DEF HeapNext

\* The binary heap (src/src/priority-queue.c) implements the priority queue that its
\* header promises, of any size up to the capacity: no operation loses, repeats or
\* re-ranks a value, and each pop takes one with the least priority.
THEOREM HeapImplements == HeapSpec => HeapRefines
<1>1. HeapInv /\ [HeapNext]_heapVars => HeapInv' /\ [Q!QNext]_<<Pri, popped>>
  <2>1. ASSUME UNCHANGED heapVars PROVE UNCHANGED <<Pri, popped>> /\ (HeapInv => HeapInv')
    BY <2>1 DEF heapVars, Pri, Present, HeapInv
  <2>2. QED BY <2>1, HeapStep
<1>2. QED BY HeapInvInit, <1>1, PTL DEF HeapSpec, HeapRefines, Q!QSpec
=============================================================================
