CONSTANTS
  NoItem = NoItem
  MaxItems = 2
  Bad <- NoItems
  Resolvers <- NoItems
  Controls <- OnlyStop
  MaxControls = 1
  StartModes <- Modes
SPECIFICATION Spec
PROPERTY
  SelectionSurvivesTrackEnd
