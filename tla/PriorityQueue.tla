--------------------------- MODULE PriorityQueue ---------------------------
(***************************************************************************)
(* priority-queue.c: a min-priority queue in a binary heap.  heap is the   *)
(* used part of the array, from index 0.  The values queued are distinct,  *)
(* as the router's are (the nodes of the track).                           *)
(***************************************************************************)
EXTENDS Integers, FiniteSets, Functions

CONSTANTS
  Items,            \* what is queued
  Priorities,       \* a set of natural numbers
  MAX_PQ_ELEMENTS,
  None              \* the NULL that a pop of the empty queue returns

\* The indices are of type int16_t
ASSUME HeapAssumption == MAX_PQ_ELEMENTS \in Nat /\ MAX_PQ_ELEMENTS <= 32767
ASSUME PrioritiesAssumption == Priorities \subseteq Nat

VARIABLES heap, popped    \* the heap; the value that the last pop returned
heapVars == <<heap, popped>>

HeapNode(v, p) == [value |-> v, priority |-> p]
Size(h) == Cardinality(DOMAIN h)
LEFT(i) == i * 2 + 1
RIGHT(i) == i * 2 + 2
PARENT(i) == IF i = 0 THEN 0 ELSE (i - 1) \div 2  \* C's division rounds to 0
SwapRanks(h, i, j) ==  \* faulty: the values stay where they are
  [h EXCEPT ![i].priority = h[j].priority, ![j].priority = h[i].priority]
Swap(h, i, j) == [h EXCEPT ![i] = h[j], ![j] = h[i]]

\* The least of i and its children
Least(h, i) ==
  LET min == IF LEFT(i) \in DOMAIN h /\ h[LEFT(i)].priority < h[i].priority THEN LEFT(i) ELSE i
  IN IF RIGHT(i) \in DOMAIN h /\ h[RIGHT(i)].priority < h[min].priority THEN RIGHT(i) ELSE min

\* heapify and priority_queue_bubble_up call themselves one level down, or up, as
\* long as they swap: not more than 15 times in an array with indices of int16_t.
Levels == 15
Sink(s) ==
  LET min == Least(s.heap, s.at)
  IN IF min = s.at THEN s ELSE [heap |-> Swap(s.heap, s.at, min), at |-> min]
Rise(s) ==
  LET parent == PARENT(s.at)
  IN IF s.heap[parent].priority > s.heap[s.at].priority
     THEN [heap |-> Swap(s.heap, parent, s.at), at |-> parent] ELSE s

Heapify(h, i) ==
  LET sunk[k \in 0 .. Levels] == IF k = 0 THEN [heap |-> h, at |-> i] ELSE Sink(sunk[k - 1])
  IN sunk[Levels].heap
BubbleUp(h, i) ==
  LET risen[k \in 0 .. Levels] == IF k = 0 THEN [heap |-> h, at |-> i] ELSE Rise(risen[k - 1])
  IN risen[Levels].heap

\* Heapify at every node that has a child, the last first
Heapified(h) ==
  LET half == Size(h) \div 2
      built[k \in 0 .. half] == IF k = 0 THEN h ELSE Heapify(built[k - 1], half - k)
  IN built[half]

-----------------------------------------------------------------------------
(* The operations                                                          *)

Present == {heap[i].value : i \in DOMAIN heap}

\* priority_queue_init of an array that holds the elements in any order
DistinctValues(h) == \A i, j \in DOMAIN h : h[i].value = h[j].value => i = j
Arrays == UNION {[0 .. (n - 1) -> [value : Items, priority : Priorities]] : n \in 0 .. MAX_PQ_ELEMENTS}
HeapInit == (\E h \in Arrays : DistinctValues(h) /\ heap = Heapified(h)) /\ popped = None

Add(v, p) ==
  /\ v \notin Present
  /\ heap' = IF Size(heap) < MAX_PQ_ELEMENTS
             THEN BubbleUp([i \in 0 .. Size(heap) |->
                              IF i = Size(heap) THEN HeapNode(v, p) ELSE heap[i]], Size(heap))
             ELSE heap
  /\ UNCHANGED popped

PopMin ==
  IF Size(heap) = 0 THEN popped' = None /\ UNCHANGED heap
  ELSE LET last == Size(heap) - 1 IN
       /\ popped' = heap[0].value
       /\ heap' = Heapify([i \in 0 .. (last - 1) |-> IF i = 0 THEN heap[last] ELSE heap[i]], 0)

\* A priority that is not decreased would be left where it is: callers decrease
Decrease(v, p) ==
  /\ \A i \in DOMAIN heap : heap[i].value = v => p <= heap[i].priority
  /\ heap' = IF v \notin Present THEN heap
             ELSE LET i == CHOOSE j \in DOMAIN heap : heap[j].value = v
                  IN BubbleUp([heap EXCEPT ![i].priority = p], i)
  /\ UNCHANGED popped

HeapNext ==
  \/ \E v \in Items, p \in Priorities : Add(v, p) \/ Decrease(v, p)
  \/ PopMin
HeapSpec == HeapInit /\ [][HeapNext]_heapVars

-----------------------------------------------------------------------------
(* Properties                                                              *)

\* The priority of each value in the heap
Pri == [v \in Present |-> heap[CHOOSE i \in DOMAIN heap : heap[i].value = v].priority]

\* The heap is a priority queue: no operation loses, repeats or re-ranks a
\* value, and each pop takes one with the least priority.
Q == INSTANCE MinQueue
       WITH Values <- Items, Capacity <- MAX_PQ_ELEMENTS, pri <- Pri, ret <- popped
HeapRefines == Q!QSpec
=============================================================================
