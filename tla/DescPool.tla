------------------------------ MODULE DescPool ------------------------------
(***************************************************************************)
(* What the kernel needs of task_alloc: a set of descriptors, grouped in   *)
(* slabs, of which those in "used" are handed out.  Kernel is written on   *)
(* top of this module; TaskAlloc is the slab allocator that implements it. *)
(***************************************************************************)
EXTENDS FiniteSets

CONSTANTS Desc,   \* the task descriptors, task_alloc.slabs
          Slabs   \* the slabs they are grouped in, a partition of Desc

ASSUME DescAssumption ==
  /\ IsFiniteSet(Desc)
  /\ UNION Slabs = Desc
  /\ \A s1, s2 \in Slabs : s1 # s2 => s1 \cap s2 = {}

VARIABLE used     \* descriptors handed out and not yet freed

\* task_alloc_new: a free descriptor of a slab in use or, when there is none,
\* one of a slab put into use, whose descriptors are all cleared; none at all
\* is the NULL result.  <<descriptor, descriptors cleared>>
ActiveSlabs == {s \in Slabs : s \cap used # {}}
FreeList == (UNION ActiveSlabs) \ used
NewDesc ==
  IF FreeList # {}
  THEN {<<d, {d}>> : d \in FreeList}
  ELSE UNION {{<<d, s>> : d \in s} : s \in Slabs \ ActiveSlabs}

PoolInit == used = {}
PoolNew == \E n \in NewDesc : used' = used \cup {n[1]}
PoolFree == \E d \in used : used' = used \ {d}
PoolSpec == PoolInit /\ [][PoolNew \/ PoolFree]_used
=============================================================================
