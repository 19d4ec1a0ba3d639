----------------------------- MODULE MCServers -----------------------------
(* The servers whose promise is that nothing wrong happens, each by itself *)
(* on a small instance: a behaviour runs one of them, the one that Init    *)
(* chooses.                                                                *)
EXTENDS TrackServer, MarklinServer, Coordinator, TLC

VARIABLE using   \* what runs

\* Segments 1 and 2 are contended for; every train starts on one of its own
Apart == [t \in Train |-> t + 2]
Both == {<<1>>, <<2>>, <<1, 2>>, <<2, 1>>}

\* A command of one byte, one with a zero byte, a request for one sensor module
Mixed == {<<96>>, <<129>>, <<ZERO_BYTE, 24>>}

MCInit ==
  /\ using \in {"track", "marklin", "coordinator"}
  /\ Init
  /\ MarklinInit
  /\ CoordInit
MCNext ==
  \/ using = "track" /\ Next /\ UNCHANGED <<using, marklinVars, coordVars>>
  \/ using = "marklin" /\ MarklinNext /\ UNCHANGED <<using, vars, coordVars>>
  \/ using = "coordinator" /\ CoordNext /\ UNCHANGED <<using, vars, marklinVars>>
MCSpec ==
  MCInit /\ [][MCNext]_<<using, vars, marklinVars, coordVars>>

Symmetry == Permutations(Clients) \cup Permutations(Trains) \cup Permutations(Sensors)
=============================================================================
