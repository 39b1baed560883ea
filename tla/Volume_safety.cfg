CONSTANTS
  Full = 6
  MaxVolume = 5
  InitialVolumes = {1, 5}
SPECIFICATION VolumeSpec
INVARIANTS
  VolumeTypeOK
  Ceiling
  ChosenVolumeKept
