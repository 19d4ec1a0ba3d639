----------------------------- MODULE MCRouting -----------------------------
(* Routes on both tracks between sensors of every part of them.            *)
EXTENDS Routing

\* From sensors of every module to ends of every kind: on the loops, on the
\* middle switches, next to dead ends.  Not to where the train already stands.
From == {n \in 0 .. 79 : n % 4 = 0}
To == {4, 16, 32, 49, 71}
Pairs == {q \in From \X To : q[1] # q[2] /\ track_b[q[1] + 1].reverse # q[2]}

\* The free segments get the penalty: none of them, some, or all
AllSegments == 0 .. N_SEGMENTS - 1
Uses == {AllSegments, {}, {s \in AllSegments : s % 2 = 0}}
AllKinds == {"fwd", "rev", "progress"}
=============================================================================
