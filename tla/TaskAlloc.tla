----------------------------- MODULE TaskAlloc -----------------------------
(***************************************************************************)
(* The kernel's allocators: the slab allocator of task descriptors and the *)
(* bitmap allocator of their stacks, driven as SYS_CREAT and task_dealloc  *)
(* drive them.  A descriptor is its place <<i, j>> in slabs[i][j].         *)
(***************************************************************************)
EXTENDS Integers, Sequences, FiniteSets, SequencesExt

CONSTANTS N_SLABS, N_TASK_T  \* 128 slabs of 8 descriptors

Slab == 0 .. N_SLABS - 1
Desc == Slab \X (0 .. N_TASK_T - 1)
slab_index(d) == d[1]
Stack == 0 .. N_TASK_T * N_SLABS - 1

VARIABLES
  free_list,          \* the list from task_alloc.free_list
  active_slabs, task_count_in_slab,
  is_allocd,          \* the stacks with is_allocd set
  stack_base,         \* the stack of each task, by descriptor
  used,               \* descriptors that have a task
  assertion           \* a kassert failed

allocVars == <<free_list, active_slabs, task_count_in_slab, is_allocd, stack_base,
          used, assertion>>

AllocInit ==
  /\ free_list = <<>>
  /\ active_slabs = [s \in Slab |-> 0]
  /\ task_count_in_slab \in {[s \in Slab |-> n] : n \in 0 .. 1} \* uninitialised
  /\ is_allocd = {}
  /\ stack_base = <<>>
  /\ used = {}
  /\ assertion = FALSE

\* task_alloc_add_to_free_list: in front of the first of the same or a later
\* slab
AddToFreeList(list, d) ==
  LET before == {k \in DOMAIN list : slab_index(list[k]) < slab_index(d)}
      place == CHOOSE k \in 1 .. Len(list) + 1 :
                 /\ 1 .. k - 1 \subseteq before
                 /\ k \notin before
  IN InsertAt(list, place, d)

\* The free list of a slab just put into use: the loop adds slabs[i][0] first
NewSlabList(i) == [j \in 1 .. N_TASK_T |-> <<i, N_TASK_T - j>>]

\* What task_alloc_new sees when it looks for a descriptor: the free list, and
\* the slab it puts into use if that is empty
FirstInactive == {i \in Slab : /\ active_slabs[i] = 0
                               /\ \A j \in 0 .. i - 1 : active_slabs[j] # 0}
Activated == IF free_list = <<>> THEN FirstInactive ELSE {}

\* The counters once the slab is put into use
CountsAtNew == [s \in Slab |-> IF s \in Activated THEN 0 ELSE task_count_in_slab[s]]

\* task_alloc_new returned NULL: SYS_CREAT fails
NewFails ==
  /\ free_list = <<>> /\ FirstInactive = {}
  /\ UNCHANGED allocVars

\* stack_alloc_new: the first free stack, and the kassert if there is none
FirstFreeStack == {k \in Stack \ is_allocd : \A j \in 0 .. k - 1 : j \in is_allocd}
StackAlloc(d) ==
  /\ assertion' = (FirstFreeStack = {})
  /\ is_allocd' = is_allocd \cup FirstFreeStack
  /\ stack_base' = [e \in used \cup {d} |->
       IF e = d /\ FirstFreeStack # {} THEN CHOOSE k \in FirstFreeStack : TRUE
       ELSE IF e = d THEN 0 ELSE stack_base[e]]

\* task_alloc_new followed by the stack_alloc_new of task_init
New ==
  LET list == IF free_list # <<>> THEN free_list
              ELSE NewSlabList(CHOOSE i \in FirstInactive : TRUE)
      d == Head(list)
      count == CountsAtNew
  IN
  /\ ~assertion
  /\ free_list # <<>> \/ FirstInactive # {}
  /\ free_list' = Tail(list)
  /\ active_slabs' = [s \in Slab |-> IF s \in Activated THEN 1 ELSE active_slabs[s]]
  /\ task_count_in_slab' = [count EXCEPT ![slab_index(d)] = @ + 1]
  /\ used' = used \cup {d}
  /\ StackAlloc(d)

\* The part of task_alloc_free after the count is decremented: a slab with no
\* task left leaves the free list, which the loop walks once, and is inactive
KeepSlab(list, s) == list \* faulty: its descriptors stay in the free list
DropSlab(list, s) ==
  LET kept[k \in 0 .. Len(list)] ==
        IF k = 0 THEN <<>>
        ELSE IF slab_index(list[k]) = s THEN kept[k - 1]
        ELSE Append(kept[k - 1], list[k])
  IN kept[Len(list)]

\* stack_alloc_free of stack k
StackFreeFirst(k) == is_allocd \ {0} \* faulty: frees the first one
StackFree(k) == is_allocd \ {k}

\* task_dealloc: stack_alloc_free, task_alloc_free
Free(d) ==
  LET s == slab_index(d)
      n == task_count_in_slab[s] - 1
      list == AddToFreeList(free_list, d)
  IN
  /\ ~assertion
  /\ d \in used
  /\ is_allocd' = StackFree(stack_base[d])
  /\ task_count_in_slab' = [task_count_in_slab EXCEPT ![s] = n]
  /\ free_list' = IF n = 0 THEN DropSlab(list, s) ELSE list
  /\ active_slabs' = IF n = 0 THEN [active_slabs EXCEPT ![s] = 0] ELSE active_slabs
  /\ used' = used \ {d}
  /\ stack_base' = [e \in used \ {d} |-> stack_base[e]]
  /\ UNCHANGED assertion

AllocNext == New \/ NewFails \/ \E d \in Desc : Free(d)
AllocSpec == AllocInit /\ [][AllocNext]_allocVars

-----------------------------------------------------------------------------
(* Properties                                                              *)

\* The free list holds exactly the descriptors without a task of the active
\* slabs, once each and slab by slab, and an active slab has a task: a slab
\* whose last task ends is given back whole, however the frees interleave.
FreeListExact ==
  /\ IsInjective(free_list)
  /\ Range(free_list) = {d \in Desc : active_slabs[slab_index(d)] = 1} \ used
  /\ \A i, j \in DOMAIN free_list :
       i < j => slab_index(free_list[i]) <= slab_index(free_list[j])
  /\ \A s \in Slab : active_slabs[s] = 1 <=> \E d \in used : slab_index(d) = s

\* Tasks that are alive at the same time have different stacks, and every
\* stack that is taken belongs to one of them.
StacksDistinct ==
  /\ \A d, e \in used : stack_base[d] = stack_base[e] => d = e
  /\ is_allocd = {stack_base[d] : d \in used}

\* The kassert of stack_alloc_new holds (stack-alloc.c:20: "can assume that
\* there WILL be a free offset").
NoAssertion == ~assertion

\* task_alloc_new returns NULL only when every descriptor has a task.
FailsOnlyWhenFull == free_list = <<>> /\ FirstInactive = {} => used = Desc

\* The allocators are sound: all of the above.
SlabsSound == FreeListExact /\ StacksDistinct /\ NoAssertion /\ FailsOnlyWhenFull

\* The slab allocator implements the pool that the kernel is written on: it
\* never hands out a descriptor that has a task, and never takes one of an
\* unused slab while an active slab has one.
Pool == INSTANCE DescPool WITH Slabs <- {{s} \X (0 .. N_TASK_T - 1) : s \in Slab}
PoolRefines == Pool!PoolSpec
=============================================================================
