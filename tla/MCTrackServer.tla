--------------------------- MODULE MCTrackServer ---------------------------
(* Small instances of TrackServer: segments 1 and 2 are contended for, and *)
(* every train starts on a segment of its own.                             *)
EXTENDS TrackServer

Apart == [t \in Train |-> t + 2]
Both == {<<1>>, <<2>>, <<1, 2>>, <<2, 1>>}
=============================================================================
