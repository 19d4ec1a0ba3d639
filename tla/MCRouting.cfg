CONSTANTS
  Layout <- tracks
  Tracks = {"A", "B"}
  Queries <- Pairs
  InUse <- Uses
  Offsets = {0}
  Kinds <- AllKinds
SPECIFICATION Spec
INVARIANTS TrackSound PrioritiesExact SearchExact SwitchesSet StretchesLocked DecisionInLastSegment
