CONSTANTS
  NoItem = NoItem
  MaxItems = 2
  Bad <- AllItems
  Resolvers <- SecondItem
  Controls <- AllControls
  MaxControls = 1
  StartModes <- Modes
SPECIFICATION FairSpec
PROPERTIES
  ComesToRest
  NeverStalls
