CONSTANTS
  NoItem = NoItem
  MaxItems = 2
  Bad = {1}
  Resolvers = {1, 2}
  StartModes = {"one-shot", "repeat"}
  MaxConnections = 2
SPECIFICATION FairSpec
PROPERTIES
  FailureMovesOnlyFailedTrack
  LostConnectionFades
  PlaybackResumes
CHECK_DEADLOCK FALSE
