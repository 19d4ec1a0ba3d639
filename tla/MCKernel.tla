------------------------------ MODULE MCKernel ------------------------------
(* Small instances of Kernel: the programs its tasks run.                  *)
EXTENDS Kernel, TLC

CONSTANTS d1, d2, d3, d4, d5, d6

OneSlab5 == {{d1, d2, d3, d4, d5}}
TwoSlabs3 == {{d1, d2, d3}, {d4, d5, d6}}
Five == {d1, d2, d3, d4, d5}
Six == {d1, d2, d3, d4, d5, d6}
Symmetry5 == Permutations(Five)
SymmetrySlabs ==
  {f \in Permutations(Six) : {{f[x] : x \in s} : s \in TwoSlabs3} = TwoSlabs3}

\* Life cycle: user tasks create, kill and exit at any time.  Tasks of
\* priority 2 also block on the timer; creating at N_PRIORITY is an error.  The
\* name server, at priority 3, may kill the idle task.
Life ==
  ({1} \X {"CREAT"} \X {1, 2, N_PRIORITY}) \cup
  ({1, 2} \X {"KILL"} \X {1, 2}) \cup
  ({1, 2} \X {"KILL_CHILD", "EXIT", "YIELD"} \X {0}) \cup
  {<<3, "RCV", 0>>, <<3, "KILL", 0>>, <<2, "CREAT", 1>>, <<2, "AWAIT", 0>>, <<2, "AWAIT", N_EVENTS>>}

\* Clients of priority 1, a server of priority 3 (the first is the name
\* server) that only receives and replies, and its notifiers of priority 4.  The
\* clients also try to kill the idle task, of priority 0.
ClientServer ==
  {<<1, "SEND", 3>>, <<1, "CREAT", 1>>, <<1, "EXIT", 0>>, <<1, "KILL", 0>>,
   <<3, "RCV", 0>>, <<3, "RPLY", 1>>, <<3, "RPLY", 4>>, <<3, "CREAT", 4>>,
   <<4, "AWAIT", 0>>, <<4, "AWAIT", 2>>, <<4, "SEND", 3>>}

=============================================================================
