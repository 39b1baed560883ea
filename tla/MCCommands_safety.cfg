CONSTANTS
  Words <- Typed
  Begins <- Beginnings
  Registrations <- Registered
  Admins = {root}
  Users = {root, guest}
  Channels = {c1, c2, c3}
  Nobody = Nobody
  MaxConcurrent = 2
  MaxTrackPlaylist = 2
  LongestPlaylist = 3
  MaxCacheChannels = 2
  MaxCommands = 3
  MaxJobs = 3
SPECIFICATION FairSpec
INVARIANTS
  TypeOK
  SlotsHeld
  RepliesTellTruth
  CacheInStep
  OnlyAdminsKill
PROPERTIES
  PlaysShownStation
  RequestAnswered
CHECK_DEADLOCK FALSE
