--------------------------- MODULE MCCoordinator ---------------------------
(* Two trains with two notifiers each, and two sensors.                    *)
EXTENDS Coordinator, TLC

Symmetry == Permutations(Trains) \cup Permutations(Sensors)
=============================================================================
