CONSTANTS
  NoItem = NoItem
  MaxItems = 2
  Bad <- FirstItem
  Resolvers <- FirstItem
  Controls <- AllControls
  MaxControls = 2
  StartModes <- Modes
SPECIFICATION Spec
INVARIANTS
  OneStream
  SnapshotFresh
PROPERTIES
  FailureMovesOnlyFailedTrack
  GiveUpOnlyUnplayable
