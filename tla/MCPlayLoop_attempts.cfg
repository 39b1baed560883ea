CONSTANTS
  NoItem = NoItem
  MaxItems = 3
  Bad <- OddItems
  Resolvers <- LaterItems
  Controls <- OnlyMode
  MaxControls = 1
  StartModes <- Modes
SPECIFICATION FairSpec
PROPERTIES
  EveryItemAttempted
  GiveUpWithinStreak
