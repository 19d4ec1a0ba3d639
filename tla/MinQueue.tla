------------------------------ MODULE MinQueue ------------------------------
(* What priority-queue.h promises: values with priorities, of which a pop  *)
(* takes one with the least.  pri holds the values queued.                 *)
EXTENDS Naturals, FiniteSets, Functions

CONSTANTS Values, Priorities, Capacity, None
VARIABLES pri, ret     \* the priority of each queued value; what the last pop took

QInit == (\E S \in SUBSET Values : Cardinality(S) <= Capacity /\ pri \in [S -> Priorities]) /\ ret = None

QAdd(v, p) ==
  /\ v \notin DOMAIN pri
  /\ pri' = IF Cardinality(DOMAIN pri) < Capacity
            THEN [w \in DOMAIN pri \cup {v} |-> IF w = v THEN p ELSE pri[w]] ELSE pri
  /\ UNCHANGED ret
QPop ==
  IF DOMAIN pri = {} THEN ret' = None /\ UNCHANGED pri
  ELSE \E v \in DOMAIN pri :
         /\ \A w \in DOMAIN pri : pri[v] <= pri[w]
         /\ ret' = v
         /\ pri' = Restrict(pri, DOMAIN pri \ {v})
QDecrease(v, p) ==
  /\ pri' = IF v \in DOMAIN pri THEN [pri EXCEPT ![v] = p] ELSE pri
  /\ UNCHANGED ret

QNext ==
  \/ \E v \in Values, p \in Priorities : QAdd(v, p) \/ QDecrease(v, p)
  \/ QPop
QSpec == QInit /\ [][QNext]_<<pri, ret>>
=============================================================================
