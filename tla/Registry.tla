------------------------------ MODULE Registry ------------------------------
(* What nameserver.h promises: WhoIs returns the task that registered the  *)
(* name last, or -1 if none has.                                           *)
EXTENDS Integers

CONSTANTS Names, Tids
VARIABLES reg, ret     \* the task registered for each name; the last answer

RInit == reg = [n \in Names |-> -1] /\ ret = -1
RRegister(n, t) == reg' = [reg EXCEPT ![n] = t] /\ UNCHANGED ret
RWhoIs(n) == ret' = reg[n] /\ UNCHANGED reg
RNext == \E n \in Names : RWhoIs(n) \/ \E t \in Tids : RRegister(n, t)
rvars == <<reg, ret>>
RSpec == RInit /\ [][RNext]_rvars
=============================================================================
