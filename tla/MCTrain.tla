------------------------------ MODULE MCTrain ------------------------------
(* A train on a ring, with other trains that take segments ahead of it.    *)
EXTENDS Train

\* Which calls are refused: only those of a train that goes backwards at speed
BackwardsAtSpeed == {<<"const", TRUE>>}

\* ... or only those of a train that is still accelerating
Accelerating == {<<"accel", FALSE>>}
=============================================================================
